---- MODULE Spec2Model ----
(***************************************************************************)
(* Model of the epoch lifecycle and message admission layer of the         *)
(* chained-BFT consensus engine:                                           *)
(*   consensus/src/chained_bft/epoch_manager.rs  (EpochManager)            *)
(*                                                                         *)
(* The EpochManager is driven by one task that calls check_epoch for each  *)
(* inbound message.  One action of the model is one complete call of a     *)
(* public method, with everything it awaits.  The collaborators the        *)
(* manager only invokes (storage, state computer, network sender, safety   *)
(* rules, signature verification) are modelled from their contracts; their *)
(* outcomes (Ok / Err) are inputs of the call, collected in the record     *)
(* `env`.                                                                  *)
(***************************************************************************)
EXTENDS Integers, Sequences, FiniteSets, TLC

\* ------------------------------------------------------------------------
\* Bounds
\* ------------------------------------------------------------------------
MaxEpoch == 2

Epochs == 0..MaxEpoch

\* ------------------------------------------------------------------------
\* Accounts, committees, keys
\* ------------------------------------------------------------------------
Peers == {"P", "Q", "R"}

PeerSeq == <<"P", "Q", "R">>

NoAuthor == "NoAuthor"

\* The validator set that the committed chain assigns to epoch e.  Successive
\* epochs have different committees.
Committee(e) == Peers \ {PeerSeq[(e % 3) + 1]}

\* RecoveryData::validator_keys: the network public keys of a validator set.
ValidatorKeys(validators) == {<<"pubkey", v>> : v \in validators}

\* ValidatorVerifier: enough signatures of members of the validator set
\* (more than two thirds of the voting power, one vote each).
CheckVotingPower(signers, verifier) ==
    /\ signers \subseteq verifier
    /\ 3 * Cardinality(signers) > 2 * Cardinality(verifier)

\* ------------------------------------------------------------------------
\* Ledger infos and epoch change proofs
\* ------------------------------------------------------------------------
\* The ledger info that ends epoch e on the committed chain: signed by the
\* committee of e, carrying the validator set of e + 1.
ChainLedgerInfo(e) ==
    [epoch |-> e, signers |-> Committee(e), next |-> Committee(e + 1)]

RECURSIVE ChainSegment(_, _)
\* The ledger infos ending the epochs s, s+1, ..., t-1 (half-open span).
ChainSegment(s, t) ==
    IF s >= t THEN <<>> ELSE <<ChainLedgerInfo(s)>> \o ChainSegment(s + 1, t)

\* ValidatorChangeProof::epoch: the epoch of the first ledger info.
ProofEpoch(proof) ==
    IF Len(proof) = 0
    THEN [ok |-> FALSE]
    ELSE [ok |-> TRUE, epoch |-> proof[1].epoch]

\* VerifierType::TrustedVerifier(epoch_info).verify(ledger_info)
TrustedVerify(trusted, li) ==
    /\ trusted.epoch = li.epoch
    /\ CheckVotingPower(li.signers, trusted.verifier)

RECURSIVE VerifyChain(_, _, _)
VerifyChain(proof, i, trusted) ==
    IF i > Len(proof) THEN TRUE
    ELSE /\ TrustedVerify(trusted, proof[i])
         /\ VerifyChain(proof, i + 1,
                        [epoch |-> proof[i].epoch + 1, verifier |-> proof[i].next])

\* A verification that checks the first ledger info of the proof only and
\* returns the last one.
ProofVerify_first_only(proof, trusted) ==
    IF Len(proof) > 0 /\ TrustedVerify(trusted, proof[1])
    THEN [ok |-> TRUE, ledger_info |-> proof[Len(proof)]]
    ELSE [ok |-> FALSE]

\* ValidatorChangeProof::verify(&VerifierType::TrustedVerifier(epoch_info)):
\* the proof must be a chain that starts at the trusted epoch; the result is
\* the last ledger info of the chain.
ProofVerify(proof, trusted) ==
    IF Len(proof) > 0 /\ VerifyChain(proof, 1, trusted)
    THEN [ok |-> TRUE, ledger_info |-> proof[Len(proof)]]
    ELSE [ok |-> FALSE]


\* ------------------------------------------------------------------------
\* Collaborators
\* ------------------------------------------------------------------------
Max(a, b) == IF a >= b THEN a ELSE b

\* PersistentStorage::start: the RecoveryData of the committed ledger.
StorageStart(committed_epoch) ==
    [epoch          |-> committed_epoch,
     validators     |-> Committee(committed_epoch),
     validator_keys |-> ValidatorKeys(Committee(committed_epoch)),
     root_block     |-> [epoch |-> committed_epoch]]

\* StateComputer::sync_to: replays the ledger up to ledger_info (whose commit
\* starts epoch ledger_info.epoch + 1); a no-op when storage is already
\* there.  A failed sync leaves storage short of the target.
SyncTo(committed_epoch, ledger_info, env) ==
    IF env.sync_ok
    THEN Max(committed_epoch, ledger_info.epoch + 1)
    ELSE IF env.sync_partial /\ committed_epoch + 1 <= ledger_info.epoch
         THEN committed_epoch + 1
         ELSE committed_epoch

\* StateComputer::get_epoch_proof: the chain of epoch-boundary ledger infos
\* over the half-open span [start_epoch, end_epoch).
GetEpochProof(start_epoch, end_epoch) == ChainSegment(start_epoch, end_epoch)

\* ProposalMsg::validate_signatures
ValidateSignatures(proposal, verifier) ==
    CheckVotingPower(proposal.signers, verifier)

\* VoteMsg::verify: the vote is signed by its author, a validator of the epoch.
VoteVerify(vote_msg, verifier) ==
    /\ vote_msg.author \in verifier
    /\ vote_msg.signed

\* ------------------------------------------------------------------------
\* The world one call acts on: the manager's EpochInfo, the collaborators'
\* state, and what the call did (messages handed to send_to, collaborator
\* calls in order, security-audit records).
\* ------------------------------------------------------------------------
Call(w, c) == [w EXCEPT !.trace = Append(@, c)]

\* A send_to that hands the message to the network twice.
SendTo_twice(w, peer_id, m, env) ==
    [w EXCEPT !.sent = @ \o << [to |-> peer_id, msg |-> m, ok |-> env.send_ok],
                               [to |-> peer_id, msg |-> m, ok |-> env.send_ok] >>]

\* ConsensusNetworkSender::send_to
SendTo(w, peer_id, m, env) ==
    [w EXCEPT !.sent = Append(@, [to |-> peer_id, msg |-> m, ok |-> env.send_ok])]

\* process_epoch_retrieval asking the state computer a second time when the
\* first get_epoch_proof fails.
process_epoch_retrieval_retrying(w, request, peer_id, env) ==
    LET fetch(ok) == [op          |-> "get_epoch_proof",
                      start_epoch |-> request.start_epoch,
                      end_epoch   |-> request.end_epoch,
                      ok          |-> ok]
        w1 == Call(w, fetch(env.proof_ok))
        w2 == IF env.proof_ok THEN w1 ELSE Call(w1, fetch(TRUE))
    IN  SendTo(w2, peer_id,
               [type  |-> "EpochChange",
                proof |-> GetEpochProof(request.start_epoch, request.end_epoch)],
               env)

\* EpochManager::process_epoch_retrieval
process_epoch_retrieval(w, request, peer_id, env) ==
    LET w1 == Call(w, [op          |-> "get_epoch_proof",
                       start_epoch |-> request.start_epoch,
                       end_epoch   |-> request.end_epoch,
                       ok          |-> env.proof_ok])
    IN  IF ~env.proof_ok
        THEN w1
        ELSE SendTo(w1, peer_id,
                    [type  |-> "EpochChange",
                     proof |-> GetEpochProof(request.start_epoch, request.end_epoch)],
                    env)

\* HelpRequest with the two epochs exchanged.
HelpRequest_swapped(different_epoch, local) ==
    [start_epoch |-> local, end_epoch |-> different_epoch]

\* The request process_different_epoch serves for a peer of a lower epoch.
HelpRequest(different_epoch, local) ==
    [start_epoch |-> different_epoch, end_epoch |-> local]

\* CatchUpRequest with the two epochs exchanged.
CatchUpRequest_swapped(different_epoch, local) ==
    [start_epoch |-> different_epoch, end_epoch |-> local]

\* The request process_different_epoch sends to a peer of a higher epoch.
CatchUpRequest(different_epoch, local) ==
    [start_epoch |-> local, end_epoch |-> different_epoch]

\* process_different_epoch helping a peer of the same epoch as it helps one
\* of a lower epoch.
process_different_epoch_equal_helped(w, different_epoch, peer_id, env) ==
    LET w1 == Call(w, [op    |-> "process_different_epoch",
                       epoch |-> different_epoch,
                       peer  |-> peer_id])
        local == w.epoch_info.epoch
        request == CatchUpRequest(different_epoch, local)
        w2 == Call(w1, [op |-> "try_into", ok |-> env.ser_ok])
    IN  CASE different_epoch <= local ->
                process_epoch_retrieval(
                    w1, HelpRequest(different_epoch, local), peer_id, env)
          [] OTHER ->
                IF ~env.ser_ok
                THEN w2
                ELSE SendTo(w2, peer_id,
                            [type        |-> "RequestEpoch",
                             start_epoch |-> request.start_epoch,
                             end_epoch   |-> request.end_epoch],
                            env)

\* EpochManager::process_different_epoch
process_different_epoch(w, different_epoch, peer_id, env) ==
    LET w1 == Call(w, [op    |-> "process_different_epoch",
                       epoch |-> different_epoch,
                       peer  |-> peer_id])
        local == w.epoch_info.epoch
        request == CatchUpRequest(different_epoch, local)
        w2 == Call(w1, [op |-> "try_into", ok |-> env.ser_ok])
    IN  CASE different_epoch < local ->
                process_epoch_retrieval(
                    w1, HelpRequest(different_epoch, local), peer_id, env)
          [] different_epoch > local ->
                IF ~env.ser_ok
                THEN w2
                ELSE SendTo(w2, peer_id,
                            [type        |-> "RequestEpoch",
                             start_epoch |-> request.start_epoch,
                             end_epoch   |-> request.end_epoch],
                            env)
          [] OTHER -> w1

\* The Proposal arm treating a proposal like a vote: a proposal of another
\* epoch triggers cross-epoch help.
non_current_proposal_helped(w, peer_id, m, env) ==
    IF m.epoch # w.epoch_info.epoch
    THEN [w    |-> process_different_epoch(w, m.epoch, peer_id, env),
          some |-> FALSE]
    ELSE [w |-> w, some |-> TRUE]

\* check_for_non_current_epoch, Proposal arm: a proposal of another epoch is
\* dropped; the result is [w, some], some = TRUE when the message is returned
\* for the in-epoch checks.
non_current_proposal(w, peer_id, m, env) ==
    [w |-> w, some |-> (m.epoch = w.epoch_info.epoch)]

\* The Vote arm dropping a vote of another epoch in silence, as the Proposal
\* arm does.
non_current_vote_silent(w, peer_id, m, env) ==
    [w |-> w, some |-> (m.epoch = w.epoch_info.epoch)]

\* The Vote arm letting a vote of any epoch through to the in-epoch checks.
non_current_vote_unfiltered(w, peer_id, m, env) ==
    [w |-> w, some |-> TRUE]

\* check_for_non_current_epoch, Vote arm
non_current_vote(w, peer_id, m, env) ==
    IF m.epoch # w.epoch_info.epoch
    THEN [w    |-> process_different_epoch(w, m.epoch, peer_id, env),
          some |-> FALSE]
    ELSE [w |-> w, some |-> TRUE]

\* The Sync arm handing every SyncInfo to process_different_epoch, also one
\* of the local epoch.
non_current_sync_always_different(w, peer_id, m, env) ==
    [w    |-> process_different_epoch(w, m.epoch, peer_id, env),
     some |-> (m.epoch = w.epoch_info.epoch)]

\* check_for_non_current_epoch, Sync arm
non_current_sync(w, peer_id, m, env) ==
    IF m.epoch = w.epoch_info.epoch
    THEN [w |-> w, some |-> TRUE]
    ELSE [w    |-> process_different_epoch(w, m.epoch, peer_id, env),
          some |-> FALSE]

\* The EpochChange arm letting a proof of any epoch through to the in-epoch
\* checks.
non_current_epoch_change_unfiltered(w, peer_id, m, env) ==
    [w |-> w, some |-> ProofEpoch(m.proof).ok]

\* check_for_non_current_epoch, EpochChange arm
non_current_epoch_change(w, peer_id, m, env) ==
    LET msg_epoch == ProofEpoch(m.proof)
    IN  IF ~msg_epoch.ok
        THEN [w |-> w, some |-> FALSE]
        ELSE IF msg_epoch.epoch = w.epoch_info.epoch
             THEN [w |-> w, some |-> TRUE]
             ELSE [w    |-> process_different_epoch(w, msg_epoch.epoch, peer_id, env),
                   some |-> FALSE]

\* The RequestEpoch arm refusing a request that ends at the local epoch.
non_current_request_epoch_strict(w, peer_id, m, env) ==
    [w |-> w, some |-> (m.end_epoch < w.epoch_info.epoch)]

\* The RequestEpoch arm passing every request on, whatever its end_epoch.
non_current_request_epoch_unbounded(w, peer_id, m, env) ==
    [w |-> w, some |-> TRUE]

\* check_for_non_current_epoch, RequestEpoch arm
non_current_request_epoch(w, peer_id, m, env) ==
    [w |-> w, some |-> (m.end_epoch <= w.epoch_info.epoch)]

\* The RequestBlock arm dropping every request.
non_current_request_block_dropped(w, peer_id, m, env) ==
    [w |-> w, some |-> FALSE]

\* check_for_non_current_epoch, RequestBlock arm
non_current_request_block(w, peer_id, m, env) ==
    [w |-> w, some |-> TRUE]

\* EpochManager::check_for_non_current_epoch
check_for_non_current_epoch(w, peer_id, m, env) ==
    CASE m.type = "Proposal"     -> non_current_proposal(w, peer_id, m, env)
      [] m.type = "RequestBlock" -> non_current_request_block(w, peer_id, m, env)
      [] m.type = "Vote"         -> non_current_vote(w, peer_id, m, env)
      [] m.type = "Sync"         -> non_current_sync(w, peer_id, m, env)
      [] m.type = "EpochChange"  -> non_current_epoch_change(w, peer_id, m, env)
      [] m.type = "RequestEpoch" -> non_current_request_epoch(w, peer_id, m, env)

\* ------------------------------------------------------------------------
\* The per-epoch components start_epoch builds: pacemaker, proposer election
\* ------------------------------------------------------------------------
\* The order of account addresses.
AddressRank(a) == CHOOSE i \in 1..Len(PeerSeq) : PeerSeq[i] = a

AddressLess(a, b) == AddressRank(a) < AddressRank(b)

\* ValidatorVerifier::new: the verifier keeps its validators in a map keyed by
\* address, whatever the order they were given in.
ValidatorVerifierNew(addresses) == {addresses[i] : i \in 1..Len(addresses)}

RECURSIVE OrderedAddresses(_)
\* ValidatorVerifier::get_ordered_account_addresses_iter().collect(): the
\* validators in the order of their addresses.
OrderedAddresses(validators) ==
    IF validators = {} THEN <<>>
    ELSE LET least == CHOOSE a \in validators :
                          \A b \in validators \ {a} : AddressLess(a, b)
         IN  <<least>> \o OrderedAddresses(validators \ {least})

RECURSIVE choose_leader(_)
\* rotating_proposer_election::choose_leader: the smallest address of the
\* proposers.
choose_leader(proposers) ==
    IF Len(proposers) = 1 THEN proposers[1]
    ELSE LET rest == choose_leader(Tail(proposers))
         IN  IF AddressLess(rest, proposers[1]) THEN rest ELSE proposers[1]

\* RotatingProposer::new
RotatingProposerNew(proposers, contiguous_rounds) ==
    [type |-> "RotatingProposer", proposers |-> proposers,
     contiguous_rounds |-> contiguous_rounds]

\* MultiProposer::new
MultiProposerNew(epoch, proposers, num_proposers_per_round) ==
    [type |-> "MultiProposer", epoch |-> epoch, proposers |-> proposers,
     num_proposers_per_round |-> num_proposers_per_round]

\* RotatingProposer::get_proposer: each proposer leads contiguous_rounds
\* rounds in turn.
GetProposer(election, round) ==
    election.proposers[((round \div election.contiguous_rounds)
                            % Len(election.proposers)) + 1]

\* The FixedProposer arm handing all the proposers to the rotating election
\* instead of the one choose_leader picks.
create_proposer_election_all_rotate(config, epoch, validators) ==
    LET proposers == OrderedAddresses(validators)
    IN  CASE config.proposer_type = "MultipleOrderedProposers" ->
                MultiProposerNew(epoch, proposers, 2)
          [] config.proposer_type = "RotatingProposer" ->
                RotatingProposerNew(proposers, config.contiguous_rounds)
          [] config.proposer_type = "FixedProposer" ->
                RotatingProposerNew(proposers, config.contiguous_rounds)

\* EpochManager::create_proposer_election
create_proposer_election(config, epoch, validators) ==
    LET proposers == OrderedAddresses(validators)
    IN  CASE config.proposer_type = "MultipleOrderedProposers" ->
                MultiProposerNew(epoch, proposers, 2)
          [] config.proposer_type = "RotatingProposer" ->
                RotatingProposerNew(proposers, config.contiguous_rounds)
          [] config.proposer_type = "FixedProposer" ->
                RotatingProposerNew(<<choose_leader(proposers)>>,
                                    config.contiguous_rounds)

RECURSIVE Pow(_, _)
Pow(b, n) == IF n = 0 THEN 1 ELSE b * Pow(b, n - 1)

Min(a, b) == IF a <= b THEN a ELSE b

\* ExponentialTimeInterval::new(base, exponent_base, max_exponent); the
\* exponent base is the ratio num / den.
ExponentialTimeIntervalNew(base_ms, exponent_base, max_exponent) ==
    [base_ms |-> base_ms, exponent_base |-> exponent_base,
     max_exponent |-> max_exponent]

\* The duration of the round that follows `index` consecutive timeouts, in
\* milliseconds, as the ratio num / den:
\* base * exponent_base ^ min(index, max_exponent).
GetRoundDuration(interval, index) ==
    LET pow == Min(index, interval.max_exponent)
    IN  [num |-> interval.base_ms * Pow(interval.exponent_base.num, pow),
         den |-> Pow(interval.exponent_base.den, pow)]

\* create_pacemaker with the exponent capped one step early.
create_pacemaker_short_cap(config) ==
    [time_interval |->
        ExponentialTimeIntervalNew(config.pacemaker_initial_timeout_ms,
                                   [num |-> 3, den |-> 2], 5)]

\* EpochManager::create_pacemaker: exponential interval, base
\* pacemaker_initial_timeout_ms, exponent base 1.5, maximal exponent 6.
create_pacemaker(config) ==
    [time_interval |->
        ExponentialTimeIntervalNew(config.pacemaker_initial_timeout_ms,
                                   [num |-> 3, den |-> 2], 6)]

\* The ConsensusConfig of the manager whose calls are followed one by one.
NodeConfig ==
    [proposer_type |-> "FixedProposer", contiguous_rounds |-> 2,
     pacemaker_initial_timeout_ms |-> 1000]

\* The body of start_epoch, given the validator keys it hands to
\* update_eligible_nodes and whether it stops (expect) on a failure of
\* update_eligible_nodes and of the safety rules.
start_epoch_body(w, initial_data, env, keys, update_fatal, safety_fatal) ==
    LET validators == initial_data.validators
        epoch == w.epoch_info.epoch
        w1 == Call(w, [op |-> "update_eligible_nodes", keys |-> keys,
                       ok |-> env.update_ok])
        w2 == IF env.update_ok THEN [w1 EXCEPT !.eligible_nodes = keys] ELSE w1
        w3 == Call(w2, [op |-> "BlockStore::new", root |-> initial_data.root_block])
        w4 == Call(w3, [op    |-> "safety_rules.start_new_epoch",
                        epoch |-> initial_data.root_block.epoch,
                        ok    |-> env.safety_ok])
        w5 == IF env.safety_ok
              THEN [w4 EXCEPT !.safety_rules_epoch = initial_data.root_block.epoch]
              ELSE w4
    IN  IF ~env.update_ok /\ update_fatal
        THEN [w |-> w1, panic |-> TRUE,
              error |-> "Unable to update network's eligible peers"]
        ELSE IF ~env.safety_ok /\ safety_fatal
        THEN [w |-> w4, panic |-> TRUE,
              error |-> "Unable to transition SafetyRules to the new epoch"]
        ELSE [w |-> w5, panic |-> FALSE,
              event_processor |->
                  [epoch             |-> epoch,
                   validators        |-> validators,
                   block_store       |-> [root |-> initial_data.root_block],
                   pacemaker         |-> create_pacemaker(NodeConfig),
                   proposer_election |->
                       create_proposer_election(NodeConfig, epoch, validators)]]

\* The body of start_epoch, given the validator keys it hands to
\* update_eligible_nodes.
start_epoch_with_keys(w, initial_data, env, keys) ==
    start_epoch_body(w, initial_data, env, keys, TRUE, TRUE)

\* start_epoch that hands the network the keys it already holds instead of
\* those of the RecoveryData.
start_epoch_stale_keys(w, initial_data, env) ==
    start_epoch_with_keys(w, initial_data, env, w.eligible_nodes)

\* start_epoch going on after a failure of update_eligible_nodes.
start_epoch_update_ignored(w, initial_data, env) ==
    start_epoch_body(w, initial_data, env, initial_data.validator_keys, FALSE, TRUE)

\* start_epoch going on after a failure of the safety rules.
start_epoch_safety_ignored(w, initial_data, env) ==
    start_epoch_body(w, initial_data, env, initial_data.validator_keys, TRUE, FALSE)

\* EpochManager::start_epoch: [w, panic, event_processor]
start_epoch(w, initial_data, env) ==
    start_epoch_with_keys(w, initial_data, env, initial_data.validator_keys)

\* The EpochInfo start_new_epoch installs from the RecoveryData.
InstalledEpochInfo(initial_data) ==
    [epoch |-> initial_data.epoch, verifier |-> initial_data.validators]

\* start_new_epoch installing the epoch that the target ledger info starts
\* instead of the epoch of the RecoveryData.
start_new_epoch_from_target(w, ledger_info, env) ==
    LET w1 == Call(w, [op |-> "sync_to", ledger_info |-> ledger_info,
                       ok |-> env.sync_ok, committed |-> w.storage_epoch])
        w2 == [w1 EXCEPT !.storage_epoch = SyncTo(@, ledger_info, env)]
        initial_data == StorageStart(w2.storage_epoch)
        w3 == Call(w2, [op |-> "storage.start", returned |-> initial_data])
        w4 == [w3 EXCEPT !.epoch_info = [epoch    |-> ledger_info.epoch + 1,
                                         verifier |-> ledger_info.next]]
    IN  start_epoch(w4, initial_data, env)

\* start_new_epoch stopping on a failure of sync_to.
start_new_epoch_sync_fatal(w, ledger_info, env) ==
    LET w1 == Call(w, [op |-> "sync_to", ledger_info |-> ledger_info,
                       ok |-> env.sync_ok, committed |-> w.storage_epoch])
        w2 == [w1 EXCEPT !.storage_epoch = SyncTo(@, ledger_info, env)]
        initial_data == StorageStart(w2.storage_epoch)
        w3 == Call(w2, [op |-> "storage.start", returned |-> initial_data])
        w4 == [w3 EXCEPT !.epoch_info = InstalledEpochInfo(initial_data)]
    IN  IF ~env.sync_ok
        THEN [w |-> w2, panic |-> TRUE, error |-> "State sync to new epoch failed"]
        ELSE start_epoch(w4, initial_data, env)

\* The assignment of self.epoch_info, as a step of the call.
Install(w, epoch_info) ==
    Call([w EXCEPT !.epoch_info = epoch_info],
         [op |-> "epoch_info.install", epoch_info |-> epoch_info])

\* start_new_epoch assigning the EpochInfo only after start_epoch has built
\* the EventProcessor.
start_new_epoch_install_last(w, ledger_info, env) ==
    LET w1 == Call(w, [op |-> "sync_to", ledger_info |-> ledger_info,
                       ok |-> env.sync_ok, committed |-> w.storage_epoch])
        w2 == [w1 EXCEPT !.storage_epoch = SyncTo(@, ledger_info, env)]
        initial_data == StorageStart(w2.storage_epoch)
        w3 == Call(w2, [op |-> "storage.start", returned |-> initial_data])
        s  == start_epoch(w3, initial_data, env)
    IN  IF s.panic
        THEN s
        ELSE [s EXCEPT !.w = Install(@, InstalledEpochInfo(initial_data))]

\* EpochManager::start_new_epoch: [w, panic, event_processor]
start_new_epoch(w, ledger_info, env) ==
    LET w1 == Call(w, [op |-> "sync_to", ledger_info |-> ledger_info,
                       ok |-> env.sync_ok, committed |-> w.storage_epoch])
        w2 == [w1 EXCEPT !.storage_epoch = SyncTo(@, ledger_info, env)]
        initial_data == StorageStart(w2.storage_epoch)
        w3 == Call(w2, [op |-> "storage.start", returned |-> initial_data])
        w4 == Install(w3, InstalledEpochInfo(initial_data))
    IN  start_epoch(w4, initial_data, env)

\* The Proposal arm without validate_signatures.
check_proposal_unsigned(w, peer_id, proposal) ==
    IF ~proposal.well_formed
    THEN [w |-> w, result |-> [kind |-> "Err", error |-> "not well formed"]]
    ELSE IF proposal.author # peer_id
    THEN [w |-> w,
          result |-> [kind  |-> "Err",
                      error |-> "proposal received must be from the sending peer"]]
    ELSE [w |-> w, result |-> [kind |-> "Current", msg |-> proposal]]

\* The Proposal arm without the check of the author against the sender.
check_proposal_any_author(w, peer_id, proposal) ==
    IF ~ValidateSignatures(proposal, w.epoch_info.verifier)
    THEN [w |-> w, result |-> [kind |-> "Err", error |-> "invalid signatures"]]
    ELSE IF ~proposal.well_formed
    THEN [w |-> w, result |-> [kind |-> "Err", error |-> "not well formed"]]
    ELSE [w |-> w, result |-> [kind |-> "Current", msg |-> proposal]]

\* check_epoch, Proposal arm: signatures, well-formedness, authorship.
check_proposal(w0, peer_id, proposal) ==
    LET w == Call(w0, [op |-> "validate_signatures"])
    IN  IF ~ValidateSignatures(proposal, w.epoch_info.verifier)
        THEN [w |-> w, result |-> [kind |-> "Err", error |-> "invalid signatures"]]
        ELSE IF ~proposal.well_formed
        THEN [w |-> w, result |-> [kind |-> "Err", error |-> "not well formed"]]
        ELSE IF proposal.author # peer_id
        THEN [w |-> w,
              result |-> [kind  |-> "Err",
                          error |-> "proposal received must be from the sending peer"]]
        ELSE [w |-> w, result |-> [kind |-> "Current", msg |-> proposal]]

\* The Vote arm without vote_msg.verify.
check_vote_unverified(w, peer_id, vote_msg) ==
    [w |-> w, result |-> [kind |-> "Current", msg |-> vote_msg]]

\* The Vote arm returning the error without the security log.
check_vote_unlogged(w, peer_id, vote_msg) ==
    IF ~VoteVerify(vote_msg, w.epoch_info.verifier)
    THEN [w |-> w, result |-> [kind |-> "Err", error |-> "invalid vote"]]
    ELSE [w |-> w, result |-> [kind |-> "Current", msg |-> vote_msg]]

\* check_epoch, Vote arm: a vote that fails verification is written to the
\* security log and the error returned.
check_vote(w0, peer_id, vote_msg) ==
    LET w == Call(w0, [op |-> "vote_msg.verify"])
    IN  IF ~VoteVerify(vote_msg, w.epoch_info.verifier)
        THEN [w |-> [w EXCEPT !.security_log =
                         Append(@, [event |-> "InvalidConsensusVote",
                                    error |-> "invalid vote",
                                    data  |-> vote_msg])],
              result |-> [kind |-> "Err", error |-> "invalid vote"]]
        ELSE [w |-> w, result |-> [kind |-> "Current", msg |-> vote_msg]]

\* check_epoch, EpochChange arm, given the outcome of proof.verify.
epoch_change_verified(w, verified, env) ==
    IF ~verified.ok
    THEN [w |-> w, result |-> [kind |-> "Err", error |-> "invalid proof"]]
    ELSE IF w.epoch_info.epoch <= verified.ledger_info.epoch
    THEN LET s == start_new_epoch(w, verified.ledger_info, env)
         IN  IF s.panic
             THEN [w |-> s.w, result |-> [kind |-> "Panic", error |-> s.error]]
             ELSE [w |-> s.w,
                   result |-> [kind |-> "NewStart",
                               event_processor |-> s.event_processor]]
    ELSE [w |-> w, result |-> [kind |-> "NotCurrent"]]

\* The EpochChange arm without proof.verify: the last ledger info of the
\* proof is trusted as it is.
check_epoch_change_unverified(w, peer_id, m, env) ==
    epoch_change_verified(
        w, [ok |-> TRUE, ledger_info |-> m.proof[Len(m.proof)]], env)

\* check_epoch, EpochChange arm: the proof is verified under the trusted
\* verifier built from the current EpochInfo.
check_epoch_change(w, peer_id, m, env) ==
    epoch_change_verified(Call(w, [op |-> "proof.verify"]),
                          ProofVerify(m.proof, w.epoch_info), env)

\* The RequestEpoch arm handing the error of get_epoch_proof to the caller
\* (the ? operator) instead of logging it.
check_request_epoch_propagating(w, peer_id, m, env) ==
    [w |-> process_epoch_retrieval(w, m, peer_id, env),
     result |-> IF env.proof_ok
                THEN [kind |-> "NotCurrent"]
                ELSE [kind |-> "Err", error |-> "Failed to get epoch proof"]]

\* check_epoch, RequestEpoch arm: the request is served, best effort.
check_request_epoch(w, peer_id, m, env) ==
    [w |-> process_epoch_retrieval(w, m, peer_id, env),
     result |-> [kind |-> "NotCurrent"]]

\* check_epoch, RequestBlock arm
check_request_block(w, peer_id, m) ==
    [w |-> w, result |-> [kind |-> "Current", msg |-> m]]

\* SyncInfo::verify: the certificates of the SyncInfo carry the voting power
\* of the validator set.
SyncInfoVerify(sync_info, verifier) ==
    CheckVotingPower(sync_info.signers, verifier)

\* The Sync arm verifying the SyncInfo before it is forwarded, as the Vote
\* arm does.
check_sync_verified(w0, peer_id, sync_info) ==
    LET w == Call(w0, [op |-> "sync_info.verify"])
    IN  IF ~SyncInfoVerify(sync_info, w.epoch_info.verifier)
        THEN [w |-> w, result |-> [kind |-> "Err", error |-> "invalid sync info"]]
        ELSE [w |-> w, result |-> [kind |-> "Current", msg |-> sync_info]]

\* check_epoch, Sync arm: the SyncInfo is forwarded as it is.
check_sync(w, peer_id, sync_info) ==
    [w |-> w, result |-> [kind |-> "Current", msg |-> sync_info]]

\* EpochManager::check_epoch: [w, result]
check_epoch(w, peer_id, m, env) ==
    LET c == check_for_non_current_epoch(w, peer_id, m, env)
    IN  IF ~c.some
        THEN [w |-> c.w, result |-> [kind |-> "NotCurrent"]]
        ELSE
        CASE m.type = "Proposal"     -> check_proposal(c.w, peer_id, m)
          [] m.type = "RequestBlock" -> check_request_block(c.w, peer_id, m)
          [] m.type = "Vote"         -> check_vote(c.w, peer_id, m)
          [] m.type = "Sync"         -> check_sync(c.w, peer_id, m)
          [] m.type = "EpochChange"  -> check_epoch_change(c.w, peer_id, m, env)
          [] m.type = "RequestEpoch" -> check_request_epoch(c.w, peer_id, m, env)

\* ------------------------------------------------------------------------
\* The lexer of the IR syntax (lexer.rs).  A text is a sequence of
\* one-character strings; offsets count characters.
\* ------------------------------------------------------------------------
\* The character classes of the token patterns.
Digits == {"0", "1", "2", "3", "4", "5", "6", "7", "8", "9"}

HexDigits ==
    Digits \cup {"A", "B", "C", "D", "E", "F", "a", "b", "c", "d", "e", "f"}

NameStart ==
    {"$", "_"}
    \cup {"A", "B", "C", "D", "E", "F", "G", "H", "I", "J", "K", "L", "M",
          "N", "O", "P", "Q", "R", "S", "T", "U", "V", "W", "X", "Y", "Z"}
    \cup {"a", "b", "c", "d", "e", "f", "g", "h", "i", "j", "k", "l", "m",
          "n", "o", "p", "q", "r", "s", "t", "u", "v", "w", "x", "y", "z"}

\* The characters str::trim_start removes (the ASCII ones).
Whitespace == {" ", "\t", "\n", "\r"}

\* Tok::from_usize: the token of each pattern index, in the order of the
\* match arms (arm i is element i + 1).
Toks ==
    <<"AccountAddressValue", "U64Value", "NameValue", "NameBeginTyValue", "DotNameValue",
      "ByteArrayValue", "Exclaim", "ExclaimEqual", "Percent", "Amp",
      "AmpAmp", "AmpMut", "LParen", "RParen", "Star",
      "Plus", "Comma", "Minus", "Period", "Slash",
      "Colon", "Semicolon", "Less", "LessEqual", "Equal",
      "EqualEqual", "Greater", "GreaterEqual", "Caret", "Underscore",
      "Abort", "Acquires", "Address", "As", "Assert",
      "Bool", "BorrowGlobal", "BorrowGlobalMut", "Break", "Bytearray",
      "Continue", "Copy", "CreateAccount", "Else", "Exists",
      "False", "Freeze", "GetGasRemaining", "GetTxnGasUnitPrice", "GetTxnMaxGasUnits",
      "GetTxnPublicKey", "GetTxnSender", "GetTxnSequenceNumber", "If", "Import",
      "Let", "Loop", "Main", "Module", "Modules",
      "Move", "MoveFrom", "MoveToSender", "Native", "Public",
      "Resource", "Return", "Script", "Struct", "True",
      "U64", "Unrestricted", "While", "LBrace", "Pipe",
      "PipePipe", "RBrace">>

\* A pattern that is a fixed text.
Lit(lit) == [kind |-> "literal", lit |-> lit]

\* LexerBuilder::new: the token patterns, in the order of the table (pattern
\* i is element i + 1).  The first six are the patterns of addresses,
\* numbers, names, names opening a type list, dotted names and byte arrays.
regex_vec ==
    <<[kind |-> "address"],
      [kind |-> "u64"],
      [kind |-> "name"],
      [kind |-> "name_begin_ty"],
      [kind |-> "dot_name"],
      [kind |-> "byte_array"],
      Lit(<<"!">>),
      Lit(<<"!", "=">>),
      Lit(<<"%">>),
      Lit(<<"&">>),
      Lit(<<"&", "&">>),
      Lit(<<"&", "m", "u", "t", " ">>),
      Lit(<<"(">>),
      Lit(<<")">>),
      Lit(<<"*">>),
      Lit(<<"+">>),
      Lit(<<",">>),
      Lit(<<"-">>),
      Lit(<<".">>),
      Lit(<<"/">>),
      Lit(<<":">>),
      Lit(<<";">>),
      Lit(<<"<">>),
      Lit(<<"<", "=">>),
      Lit(<<"=">>),
      Lit(<<"=", "=">>),
      Lit(<<">">>),
      Lit(<<">", "=">>),
      Lit(<<"^">>),
      Lit(<<"_">>),
      Lit(<<"a", "b", "o", "r", "t">>),
      Lit(<<"a", "c", "q", "u", "i", "r", "e", "s">>),
      Lit(<<"a", "d", "d", "r", "e", "s", "s">>),
      Lit(<<"a", "s">>),
      Lit(<<"a", "s", "s", "e", "r", "t", "(">>),
      Lit(<<"b", "o", "o", "l">>),
      Lit(<<"b", "o", "r", "r", "o", "w", "_", "g", "l", "o", "b", "a", "l", "<">>),
      Lit(<<"b", "o", "r", "r", "o", "w", "_", "g", "l", "o", "b", "a", "l", "_", "m", "u", "t", "<">>),
      Lit(<<"b", "r", "e", "a", "k">>),
      Lit(<<"b", "y", "t", "e", "a", "r", "r", "a", "y">>),
      Lit(<<"c", "o", "n", "t", "i", "n", "u", "e">>),
      Lit(<<"c", "o", "p", "y", "(">>),
      Lit(<<"c", "r", "e", "a", "t", "e", "_", "a", "c", "c", "o", "u", "n", "t">>),
      Lit(<<"e", "l", "s", "e">>),
      Lit(<<"e", "x", "i", "s", "t", "s", "<">>),
      Lit(<<"f", "a", "l", "s", "e">>),
      Lit(<<"f", "r", "e", "e", "z", "e">>),
      Lit(<<"g", "e", "t", "_", "g", "a", "s", "_", "r", "e", "m", "a", "i", "n", "i", "n", "g">>),
      Lit(<<"g", "e", "t", "_", "t", "x", "n", "_", "g", "a", "s", "_", "u", "n", "i", "t", "_", "p", "r", "i", "c", "e">>),
      Lit(<<"g", "e", "t", "_", "t", "x", "n", "_", "m", "a", "x", "_", "g", "a", "s", "_", "u", "n", "i", "t", "s">>),
      Lit(<<"g", "e", "t", "_", "t", "x", "n", "_", "p", "u", "b", "l", "i", "c", "_", "k", "e", "y">>),
      Lit(<<"g", "e", "t", "_", "t", "x", "n", "_", "s", "e", "n", "d", "e", "r">>),
      Lit(<<"g", "e", "t", "_", "t", "x", "n", "_", "s", "e", "q", "u", "e", "n", "c", "e", "_", "n", "u", "m", "b", "e", "r">>),
      Lit(<<"i", "f">>),
      Lit(<<"i", "m", "p", "o", "r", "t">>),
      Lit(<<"l", "e", "t">>),
      Lit(<<"l", "o", "o", "p">>),
      Lit(<<"m", "a", "i", "n">>),
      Lit(<<"m", "o", "d", "u", "l", "e">>),
      Lit(<<"m", "o", "d", "u", "l", "e", "s", ":">>),
      Lit(<<"m", "o", "v", "e", "(">>),
      Lit(<<"m", "o", "v", "e", "_", "f", "r", "o", "m", "<">>),
      Lit(<<"m", "o", "v", "e", "_", "t", "o", "_", "s", "e", "n", "d", "e", "r", "<">>),
      Lit(<<"n", "a", "t", "i", "v", "e">>),
      Lit(<<"p", "u", "b", "l", "i", "c">>),
      Lit(<<"r", "e", "s", "o", "u", "r", "c", "e">>),
      Lit(<<"r", "e", "t", "u", "r", "n">>),
      Lit(<<"s", "c", "r", "i", "p", "t", ":">>),
      Lit(<<"s", "t", "r", "u", "c", "t">>),
      Lit(<<"t", "r", "u", "e">>),
      Lit(<<"u", "6", "4">>),
      Lit(<<"u", "n", "r", "e", "s", "t", "r", "i", "c", "t", "e", "d">>),
      Lit(<<"w", "h", "i", "l", "e">>),
      Lit(<<"{">>),
      Lit(<<"|">>),
      Lit(<<"|", "|">>),
      Lit(<<"}">>)>>

\* The number of leading characters of the text that belong to the class.
RECURSIVE Run(_, _)
Run(text, class) ==
    IF text # <<>> /\ Head(text) \in class
    THEN 1 + Run(Tail(text), class)
    ELSE 0

\* &text[..n] and &text[n..]
Take(text, n) == SubSeq(text, 1, n)

Drop(text, n) == SubSeq(text, n + 1, Len(text))

\* str::trim_start
TrimStart(text) == Drop(text, Run(text, Whitespace))

\* The length of the name the text begins with: [$A-Z_a-z][$0-9A-Z_a-z]*,
\* 0 when it begins with none.
NameEnd(text) ==
    IF text # <<>> /\ Head(text) \in NameStart
    THEN 1 + Run(Tail(text), NameStart \cup Digits)
    ELSE 0

NoMatch == [some |-> FALSE]

\* A match of the pattern at the start of the text, ending at `end`.
Match(end) == [some |-> TRUE, end |-> end]

\* Regex::find(text) for the patterns of the table, all anchored at the
\* start of the text; the repetitions are greedy and what follows them is
\* outside their class, so each pattern has at most one match.
Find(token_exp, text) ==
    CASE token_exp.kind = "literal" ->
             IF /\ Len(token_exp.lit) <= Len(text)
                /\ Take(text, Len(token_exp.lit)) = token_exp.lit
             THEN Match(Len(token_exp.lit))
             ELSE NoMatch
      [] token_exp.kind = "address" ->
             \* ^(0[Xx][0-9A-Fa-f]+)
             IF /\ Len(text) >= 3
                /\ text[1] = "0"
                /\ text[2] \in {"X", "x"}
                /\ Run(Drop(text, 2), HexDigits) >= 1
             THEN Match(2 + Run(Drop(text, 2), HexDigits))
             ELSE NoMatch
      [] token_exp.kind = "u64" ->
             \* ^([0-9]+)
             IF Run(text, Digits) >= 1 THEN Match(Run(text, Digits)) ELSE NoMatch
      [] token_exp.kind = "name" ->
             \* ^([\$A-Z_a-z][\$0-9A-Z_a-z]*)
             IF NameEnd(text) >= 1 THEN Match(NameEnd(text)) ELSE NoMatch
      [] token_exp.kind = "name_begin_ty" ->
             \* ^([\$A-Z_a-z][\$0-9A-Z_a-z]*<)
             LET n == NameEnd(text)
             IN  IF n >= 1 /\ Len(text) > n /\ text[n + 1] = "<"
                 THEN Match(n + 1)
                 ELSE NoMatch
      [] token_exp.kind = "dot_name" ->
             \* ^([\$A-Z_a-z][\$0-9A-Z_a-z]*\.[\$A-Z_a-z][\$0-9A-Z_a-z]*)
             LET n == NameEnd(text)
                 k == NameEnd(Drop(text, n + 1))
             IN  IF n >= 1 /\ Len(text) > n /\ text[n + 1] = "." /\ k >= 1
                 THEN Match(n + 1 + k)
                 ELSE NoMatch
      [] token_exp.kind = "byte_array" ->
             \* ^(h"[0-9A-Fa-f]*")
             LET n == Run(Drop(text, 2), HexDigits)
             IN  IF /\ Len(text) >= 3
                    /\ text[1] = "h"
                    /\ text[2] = "\""
                    /\ Len(text) > 2 + n
                    /\ text[3 + n] = "\""
                 THEN Match(3 + n)
                 ELSE NoMatch

\* Tok::from_usize
from_usize(value) ==
    IF value + 1 \in DOMAIN Toks
    THEN [panic |-> FALSE, tok |-> Toks[value + 1]]
    ELSE [panic |-> TRUE, error |-> "Unknown token value"]

\* The loop of advance keeping the first of the patterns that match with the
\* same length (len > longest_match).
RECURSIVE Scan_first_wins(_, _, _, _)
Scan_first_wins(text, i, longest_match, index) ==
    IF i >= Len(regex_vec)
    THEN [longest_match |-> longest_match, index |-> index]
    ELSE LET m == Find(regex_vec[i + 1], text)
         IN  IF m.some /\ m.end > longest_match
             THEN Scan_first_wins(text, i + 1, m.end, [some |-> TRUE, value |-> i])
             ELSE Scan_first_wins(text, i + 1, longest_match, index)

\* The loop of advance over the patterns i, i + 1, ... of the table:
\* `for (i, token_exp) in self.regex_vec.iter().enumerate()`, with the
\* longest match and its pattern index so far.
RECURSIVE Scan(_, _, _, _)
Scan(text, i, longest_match, index) ==
    IF i >= Len(regex_vec)
    THEN [longest_match |-> longest_match, index |-> index]
    ELSE LET m == Find(regex_vec[i + 1], text)
         IN  IF m.some /\ m.end >= longest_match
             THEN Scan(text, i + 1, m.end, [some |-> TRUE, value |-> i])
             ELSE Scan(text, i + 1, longest_match, index)

\* The token a lexer holds: (start, Token(tok, content), end).
TokenOf(start, tok, content, end) ==
    [start |-> start, tok |-> tok, content |-> content, end |-> end]

\* LexerBuilder::lexer
lexer(s) ==
    [text         |-> s,
     consumed     |-> 0,
     previous_end |-> 0,
     token        |-> TokenOf(0, "EOF", <<>>, 0)]

\* The end-of-text branch leaving the offset where it was.
advance_eof_offset_kept(self, text, start_offset) ==
    [self   |-> [self EXCEPT !.text = text,
                             !.token = TokenOf(start_offset, "EOF", <<>>, start_offset)],
     result |-> [kind |-> "Ok"]]

\* advance, nothing left after the whitespace: the token is EOF.
advance_eof(self, text, start_offset) ==
    [self   |-> [self EXCEPT !.text = text,
                             !.consumed = start_offset,
                             !.token = TokenOf(start_offset, "EOF", <<>>, start_offset)],
     result |-> [kind |-> "Ok"]]

\* The no-match branch stepping over the character no pattern matches.
advance_invalid_skipping(self, text, start_offset) ==
    [self   |-> [self EXCEPT !.text = Tail(text), !.consumed = start_offset + 1],
     result |-> [kind |-> "InvalidToken", location |-> start_offset]]

\* advance, no pattern matches: the error, the lexer as it was.
advance_invalid(self, text, start_offset) ==
    [self   |-> self,
     result |-> [kind |-> "InvalidToken", location |-> start_offset]]

\* advance, a pattern matched: the token is cut off the text.
advance_token(self, text, start_offset, longest_match, index) ==
    LET result == Take(text, longest_match)
        remaining == Drop(text, longest_match)
        end_offset == start_offset + longest_match
        tok == from_usize(index)
    IN  IF tok.panic
        THEN [self |-> self, result |-> [kind |-> "Panic", error |-> tok.error]]
        ELSE [self   |-> [self EXCEPT !.text = remaining,
                                      !.consumed = end_offset,
                                      !.token = TokenOf(start_offset, tok.tok,
                                                        result, end_offset)],
              result |-> [kind |-> "Ok"]]

\* Lexer::advance: [self, result]
advance(self0) ==
    LET self == [self0 EXCEPT !.previous_end = self0.token.end]
        text == TrimStart(self.text)
        whitespace == Len(self.text) - Len(text)
        start_offset == self.consumed + whitespace
    IN  IF text = <<>>
        THEN advance_eof(self, text, start_offset)
        ELSE LET scan == Scan(text, 0, 0, [some |-> FALSE])
             IN  IF ~scan.index.some
                 THEN advance_invalid(self, text, start_offset)
                 ELSE advance_token(self, text, start_offset,
                                    scan.longest_match, scan.index.value)

\* ------------------------------------------------------------------------
\* State
\* ------------------------------------------------------------------------
VARIABLES
    epoch_info,          \* EpochManager.epoch_info: [epoch, verifier]
    storage_epoch,       \* the epoch of the ledger committed in storage
    eligible_nodes,      \* the network's eligible-nodes set (validator keys)
    safety_rules_epoch,  \* the epoch the safety rules were last started in
    running,             \* FALSE once a fatal error (panic) ended the task
    op,                  \* the last call: "check_epoch", "start_new_epoch",
                         \* "process_different_epoch"
    peer_id,             \* its peer_id argument
    msg,                 \* its message argument
    old_epoch_info,      \* epoch_info when the call began
    result,              \* what it returned
    sent,                \* the messages it handed to send_to, in order
    trace,               \* the collaborator calls it made, in order
    security_log,        \* the security-audit records it wrote
    replay               \* the call repeats the message of the call before
                         \* it, which returned NewStart

\* The components start_epoch builds, followed on their own.
VARIABLES
    config,              \* the ConsensusConfig the components are built from
    addresses,           \* the addresses of the validator set of the epoch
    built,               \* the proposer elections built so far, each with the
                         \* order of the addresses it was built from
    pacemaker,           \* the pacemaker built, or NoPacemaker
    timeouts,            \* the consecutive round timeouts since the last commit
    round_duration       \* the duration of the current round: [num, den] (ms)

callVars == <<epoch_info, storage_epoch, eligible_nodes, safety_rules_epoch, running,
              op, peer_id, msg, old_epoch_info, result, sent, trace, security_log,
              replay>>

factoryVars == <<config, addresses, built, pacemaker, timeouts, round_duration>>

\* The task that drives the manager, followed from one suspension point of
\* check_epoch to the next.
VARIABLES
    inbox,               \* the inbound messages the driver has not handled yet
    calls                \* the check_epoch calls: where each one stands

stepVars == <<inbox, calls>>

\* What the last call did, as against the state of the manager and of its
\* collaborators.
obsVars == <<op, peer_id, msg, old_epoch_info, result, sent, trace, security_log,
             replay>>

\* Two managers that exchange messages over the network.
VARIABLES
    nodes,               \* each node's manager and collaborators: [epoch_info,
                         \* storage_epoch, eligible_nodes, safety_rules_epoch]
    channel,             \* channel[n]: the messages in flight to n from its
                         \* peer, in the order they were sent
    owed                 \* owed[n]: the highest epoch a cross-epoch exchange
                         \* was started to bring n to

netVars == <<nodes, channel, owed>>

\* A lexer over an input text.
VARIABLES
    input_text,          \* the text the lexer was made for
    text,                \* Lexer.text: what is left of the input
    consumed,            \* Lexer.consumed: the offset of `text` in the input
    previous_end,        \* Lexer.previous_end
    token,               \* Lexer.token: [start, tok, content, end]
    lex_result,          \* what the last advance returned, "None" before the
                         \* first one
    before,              \* the lexer and the result before the last advance:
                         \* [text, consumed, token, result]
    tokens               \* the advances so far that returned a token other
                         \* than EOF

lexVars == <<input_text, text, consumed, previous_end, token, lex_result, before, tokens>>

vars == <<callVars, factoryVars, stepVars, netVars, lexVars>>

\* ------------------------------------------------------------------------
\* Inputs
\* ------------------------------------------------------------------------
Authors == Peers \cup {NoAuthor}

\* The peers messages arrive from.
Senders == {"P", "Q"}

\* The signer sets of inbound proposals: the committees, and one validator
\* alone.
SignerSets == {Committee(e) : e \in Epochs} \cup {{"P"}}

BlockIds == {"b1", "b2"}

\* A proof whose i-th ledger info lacks the voting power of its committee.
Forge(proof, i) ==
    [proof EXCEPT ![i].signers = {CHOOSE v \in proof[i].signers : TRUE}]

HonestProofs == {ChainSegment(s, t) : s \in Epochs, t \in Epochs}

Proofs ==
    HonestProofs
    \cup UNION {{Forge(p, i) : i \in 1..Len(p)} : p \in HonestProofs}
    \cup {<<ChainLedgerInfo(s), ChainLedgerInfo(s + 2)>> : s \in 0..(MaxEpoch - 2)}
    \cup {<<ChainLedgerInfo(s + 1), ChainLedgerInfo(s)>> : s \in 0..(MaxEpoch - 1)}

DefaultEnv ==
    [sync_ok |-> TRUE, sync_partial |-> FALSE, proof_ok |-> TRUE, ser_ok |-> TRUE,
     send_ok |-> TRUE, update_ok |-> TRUE, safety_ok |-> TRUE]

\* The outcomes of the calls of the cross-epoch helper: all succeed, or
\* get_epoch_proof, the serialization or send_to fails.
HelpEnvs ==
    {DefaultEnv,
     [DefaultEnv EXCEPT !.proof_ok = FALSE],
     [DefaultEnv EXCEPT !.ser_ok = FALSE],
     [DefaultEnv EXCEPT !.send_ok = FALSE]}

\* The outcomes of the calls of an epoch transition: all succeed, or sync_to
\* fails (with or without progress), or update_eligible_nodes or the safety
\* rules fail (the first also after a failed sync_to).
TransitionEnvs ==
    {DefaultEnv,
     [DefaultEnv EXCEPT !.sync_ok = FALSE],
     [DefaultEnv EXCEPT !.sync_ok = FALSE, !.sync_partial = TRUE],
     [DefaultEnv EXCEPT !.update_ok = FALSE],
     [DefaultEnv EXCEPT !.sync_ok = FALSE, !.update_ok = FALSE],
     [DefaultEnv EXCEPT !.safety_ok = FALSE]}

World ==
    [epoch_info         |-> epoch_info,
     storage_epoch      |-> storage_epoch,
     eligible_nodes     |-> eligible_nodes,
     safety_rules_epoch |-> safety_rules_epoch,
     sent               |-> <<>>,
     trace              |-> <<>>,
     security_log       |-> <<>>]

\* ------------------------------------------------------------------------
\* Initial state: the manager is constructed from the RecoveryData of storage
\* (EpochManager::new), no call made yet.
\* ------------------------------------------------------------------------
\* No pacemaker yet: a placeholder with an empty interval.
NoPacemaker ==
    [time_interval |-> ExponentialTimeIntervalNew(0, [num |-> 1, den |-> 1], 0)]

\* No component has been built.
FactoryIdle ==
    /\ config = NodeConfig
    /\ addresses = {}
    /\ built = <<>>
    /\ pacemaker = NoPacemaker
    /\ timeouts = 0
    /\ round_duration = [num |-> 0, den |-> 1]

MaxCalls == 2

CallIds == 1..MaxCalls

\* A check_epoch call that is not running.
FreeCall ==
    [pc |-> "free", peer_id |-> "none", msg |-> [type |-> "none"], ledger_info |-> <<>>]

\* No message waits and no call runs.
StepIdle ==
    /\ inbox = <<>>
    /\ calls = [c \in CallIds |-> FreeCall]

\* The nodes of the network.
Nodes == {"P", "Q"}

\* A node whose manager was constructed over storage committed up to epoch e.
NodeAt(e) ==
    [epoch_info         |-> InstalledEpochInfo(StorageStart(e)),
     storage_epoch      |-> e,
     eligible_nodes     |-> StorageStart(e).validator_keys,
     safety_rules_epoch |-> e]

\* No network: nothing in flight.
NetIdle ==
    /\ nodes = [n \in Nodes |-> NodeAt(0)]
    /\ channel = [n \in Nodes |-> <<>>]
    /\ owed = [n \in Nodes |-> 0]

\* No lexer in use: a lexer over the empty text, not advanced.
LexIdle ==
    /\ input_text = <<>>
    /\ text = lexer(<<>>).text
    /\ consumed = lexer(<<>>).consumed
    /\ previous_end = lexer(<<>>).previous_end
    /\ token = lexer(<<>>).token
    /\ lex_result = [kind |-> "None"]
    /\ before = [text |-> <<>>, consumed |-> 0, token |-> lexer(<<>>).token,
                 result |-> [kind |-> "None"]]
    /\ tokens = 0

\* EpochManager::new over storage committed up to the given epochs.
ManagerInit(committed) ==
    /\ storage_epoch \in committed
    /\ epoch_info = InstalledEpochInfo(StorageStart(storage_epoch))
    /\ eligible_nodes = StorageStart(storage_epoch).validator_keys
    /\ safety_rules_epoch = storage_epoch
    /\ running = TRUE
    /\ op = "none"
    /\ peer_id = "none"
    /\ msg = [type |-> "none"]
    /\ old_epoch_info = epoch_info
    /\ result = [kind |-> "none"]
    /\ sent = <<>>
    /\ trace = <<>>
    /\ security_log = <<>>
    /\ replay = FALSE

Init ==
    /\ ManagerInit(Epochs)
    /\ FactoryIdle
    /\ StepIdle
    /\ NetIdle
    /\ LexIdle

\* The state after a call that ended in world w with the given result.
Commit(w, r) ==
    /\ epoch_info' = w.epoch_info
    /\ storage_epoch' = w.storage_epoch
    /\ eligible_nodes' = w.eligible_nodes
    /\ safety_rules_epoch' = w.safety_rules_epoch
    /\ running' = (r.kind # "Panic")
    /\ old_epoch_info' = epoch_info
    /\ result' = r
    /\ sent' = w.sent
    /\ trace' = w.trace
    /\ security_log' = w.security_log
    /\ UNCHANGED <<factoryVars, stepVars, netVars, lexVars>>

\* One inbound message: the whole of check_epoch(peer, m).
Deliver(peer, m, env) ==
    /\ \E out \in {check_epoch(World, peer, m, env)} :
           Commit(out.w, out.result)
    /\ op' = "check_epoch"
    /\ peer_id' = peer
    /\ msg' = m
    /\ replay' = (op = "check_epoch" /\ result.kind = "NewStart" /\ msg = m)

RecvProposal ==
    \E peer \in Senders, e \in Epochs, a \in Authors, s \in SignerSets, wf \in BOOLEAN :
        /\ running
        /\ Deliver(peer,
                   [type |-> "Proposal", epoch |-> e, author |-> a, signers |-> s,
                 well_formed |-> wf],
                DefaultEnv)

RecvRequestBlock ==
    \E peer \in Senders, b \in BlockIds :
        /\ running
        /\ Deliver(peer, [type |-> "RequestBlock", block_id |-> b], DefaultEnv)

RecvVote ==
    \E peer \in Senders, e \in Epochs, a \in Peers, sg \in BOOLEAN, env \in HelpEnvs :
        /\ running
        /\ Deliver(peer,
                   [type |-> "Vote", epoch |-> e, author |-> a, signed |-> sg],
                env)

RecvSync ==
    \E peer \in Senders, e \in Epochs, s \in SignerSets, env \in HelpEnvs :
        /\ running
        /\ Deliver(peer, [type |-> "Sync", epoch |-> e, signers |-> s], env)

RecvEpochChange ==
    \E peer \in Senders, p \in Proofs, env \in HelpEnvs \cup TransitionEnvs :
        /\ running
        /\ Deliver(peer, [type |-> "EpochChange", proof |-> p], env)

RecvRequestEpoch ==
    \E peer \in Senders, s \in Epochs, e \in Epochs, env \in HelpEnvs :
        /\ running
        /\ Deliver(peer,
                   [type |-> "RequestEpoch", start_epoch |-> s, end_epoch |-> e],
                env)

\* A direct call of the public start_new_epoch with a ledger info of the chain.
StartNewEpochCall ==
    \E e \in 0..(MaxEpoch - 1), env \in TransitionEnvs :
        /\ running
        /\ \E s \in {start_new_epoch(World, ChainLedgerInfo(e), env)} :
               Commit(s.w,
                      IF s.panic
                      THEN [kind |-> "Panic", error |-> s.error]
                      ELSE [kind |-> "Returned",
                            event_processor |-> s.event_processor])
        /\ op' = "start_new_epoch"
        /\ peer_id' = "none"
        /\ msg' = [type |-> "none"]
        /\ replay' = FALSE

\* A direct call of the public process_different_epoch.
ProcessDifferentEpochCall ==
    \E peer \in Senders, e \in Epochs, env \in HelpEnvs :
        /\ running
        /\ \E w \in {process_different_epoch(World, e, peer, env)} :
               Commit(w, [kind |-> "Unit"])
        /\ op' = "process_different_epoch"
        /\ peer_id' = peer
        /\ msg' = [type |-> "none"]
        /\ replay' = FALSE

\* The ledger advances by an epoch outside the manager (the running event
\* processor commits a reconfiguration).
CommitReconfiguration ==
    /\ running
    /\ storage_epoch < MaxEpoch
    /\ storage_epoch' = storage_epoch + 1
    /\ UNCHANGED <<epoch_info, eligible_nodes, safety_rules_epoch, running, op,
                   peer_id, msg, old_epoch_info, result, sent, trace, security_log,
                   replay>>
    /\ UNCHANGED <<factoryVars, stepVars, netVars, lexVars>>

Next ==
    \/ RecvProposal
    \/ RecvRequestBlock
    \/ RecvVote
    \/ RecvSync
    \/ RecvEpochChange
    \/ RecvRequestEpoch
    \/ StartNewEpochCall
    \/ ProcessDifferentEpochCall
    \/ CommitReconfiguration

Spec == Init /\ [][Next]_vars

\* ------------------------------------------------------------------------
\* The components of an EventProcessor: the proposer election and the
\* pacemaker start_epoch builds, for every configuration and validator set.
\* ------------------------------------------------------------------------
MaxBuilds == 2

MaxTimeouts == 8

MaxRound == 4

\* The sequences that list each element of the set once.
Orderings(set) ==
    {f \in [1..Cardinality(set) -> set] :
        \A i, j \in 1..Cardinality(set) : i # j => f[i] # f[j]}

Configs ==
    [proposer_type : {"FixedProposer", "RotatingProposer", "MultipleOrderedProposers"},
     contiguous_rounds : {1, 2},
     pacemaker_initial_timeout_ms : {1, 1000}]

FactoryInit ==
    /\ ManagerInit({0})
    /\ StepIdle
    /\ NetIdle
    /\ LexIdle
    /\ config \in Configs
    /\ addresses \in SUBSET Peers \ {{}}
    /\ built = <<>>
    /\ pacemaker = NoPacemaker
    /\ timeouts = 0
    /\ round_duration = [num |-> 0, den |-> 1]

\* start_epoch builds the proposer election of an epoch from a verifier that
\* was given the validators in some order.
BuildProposerElection ==
    \E input \in Orderings(addresses) :
        /\ Len(built) < MaxBuilds
        /\ built' = Append(built,
                           [input    |-> input,
                            election |-> create_proposer_election(
                                             config, epoch_info.epoch,
                                             ValidatorVerifierNew(input))])
        /\ UNCHANGED <<config, addresses, pacemaker, timeouts, round_duration>>
        /\ UNCHANGED <<callVars, stepVars, netVars, lexVars>>

\* start_epoch builds the pacemaker, which starts the first round.
BuildPacemaker ==
    /\ pacemaker = NoPacemaker
    /\ pacemaker' = create_pacemaker(config)
    /\ timeouts' = 0
    /\ round_duration' = GetRoundDuration(pacemaker'.time_interval, 0)
    /\ UNCHANGED <<config, addresses, built>>
    /\ UNCHANGED <<callVars, stepVars, netVars, lexVars>>

\* The round times out and the next round starts.
RoundTimeout ==
    /\ pacemaker # NoPacemaker
    /\ timeouts < MaxTimeouts
    /\ timeouts' = timeouts + 1
    /\ round_duration' = GetRoundDuration(pacemaker.time_interval, timeouts')
    /\ UNCHANGED <<config, addresses, built, pacemaker>>
    /\ UNCHANGED <<callVars, stepVars, netVars, lexVars>>

\* A round commits and the count of consecutive timeouts starts again.
RoundCommitted ==
    /\ pacemaker # NoPacemaker
    /\ timeouts > 0
    /\ timeouts' = 0
    /\ round_duration' = GetRoundDuration(pacemaker.time_interval, 0)
    /\ UNCHANGED <<config, addresses, built, pacemaker>>
    /\ UNCHANGED <<callVars, stepVars, netVars, lexVars>>

FactoryNext ==
    \/ BuildProposerElection
    \/ BuildPacemaker
    \/ RoundTimeout
    \/ RoundCommitted

FactorySpec == FactoryInit /\ [][FactoryNext]_vars

\* ------------------------------------------------------------------------
\* The driving task, step by step: check_epoch suspends in start_new_epoch
\* at sync_to and at storage.start, while messages go on arriving.
\* ------------------------------------------------------------------------
MaxInbox == 2

\* The messages that arrive: votes of every epoch and the epoch change
\* proofs of the chain, from one peer.
StepMessages ==
    {[type |-> "Vote", epoch |-> e, author |-> "Q", signed |-> TRUE] : e \in Epochs}
    \cup {[type |-> "EpochChange", proof |-> p] : p \in HonestProofs \ {<<>>}}

\* The outcomes of sync_to and of the calls of start_epoch.
StepEnvs ==
    {DefaultEnv,
     [DefaultEnv EXCEPT !.sync_ok = FALSE],
     [DefaultEnv EXCEPT !.update_ok = FALSE]}

StepInit ==
    /\ ManagerInit(Epochs)
    /\ FactoryIdle
    /\ StepIdle
    /\ NetIdle
    /\ LexIdle

\* The position of a call that is inside start_new_epoch, suspended at
\* sync_to or at storage.start.
TransitionPcs == {"sync_to", "storage.start"}

\* check_epoch borrows the manager without exclusion (&self): a call may
\* begin while another is suspended.
ExclusiveBorrow_shared(cs) == TRUE

\* check_epoch takes &mut self: a call can begin only when no other call of
\* the manager is alive.
ExclusiveBorrow(cs) == \A c \in CallIds : cs[c].pc = "free"

\* The target ledger info when check_epoch(peer, m) gets as far as
\* start_new_epoch: m is an EpochChange of the local epoch whose proof
\* verifies, and the local epoch is at most the target's; <<>> otherwise.
TransitionTarget(w, peer, m) ==
    IF m.type # "EpochChange"
    THEN <<>>
    ELSE LET c == check_for_non_current_epoch(w, peer, m, DefaultEnv)
             verified == ProofVerify(m.proof, w.epoch_info)
         IN  IF c.some /\ verified.ok
                       /\ w.epoch_info.epoch <= verified.ledger_info.epoch
             THEN <<verified.ledger_info>>
             ELSE <<>>

\* A message arrives from the network.
Arrive ==
    \E m \in StepMessages :
        /\ running
        /\ Len(inbox) < MaxInbox
        /\ inbox' = Append(inbox, [peer_id |-> "P", msg |-> m])
        /\ UNCHANGED <<callVars, factoryVars, netVars, lexVars, calls>>

\* The driver takes the next message and calls check_epoch.
BeginCheckEpoch ==
    \E c \in CallIds :
        /\ running
        /\ inbox # <<>>
        /\ calls[c].pc = "free"
        /\ ExclusiveBorrow(calls)
        /\ calls' = [calls EXCEPT ![c] = [pc          |-> "classify",
                                          peer_id     |-> Head(inbox).peer_id,
                                          msg         |-> Head(inbox).msg,
                                          ledger_info |-> <<>>]]
        /\ inbox' = Tail(inbox)
        /\ UNCHANGED <<callVars, factoryVars, netVars, lexVars>>

\* check_epoch classifies the message against the local epoch.  A verified
\* EpochChange enters start_new_epoch and suspends at sync_to; every other
\* message is handled to the end of the call.
Classify ==
    \E c \in CallIds :
        /\ running
        /\ calls[c].pc = "classify"
        /\ LET target == TransitionTarget(World, calls[c].peer_id, calls[c].msg)
           IN  IF target # <<>>
               THEN /\ calls' = [calls EXCEPT ![c].pc = "sync_to",
                                              ![c].ledger_info = target]
                    /\ UNCHANGED <<epoch_info, storage_epoch, eligible_nodes,
                                   safety_rules_epoch, running>>
               ELSE LET out == check_epoch(World, calls[c].peer_id, calls[c].msg,
                                           DefaultEnv)
                    IN  /\ calls' = [calls EXCEPT ![c] = FreeCall]
                        /\ epoch_info' = out.w.epoch_info
                        /\ storage_epoch' = out.w.storage_epoch
                        /\ eligible_nodes' = out.w.eligible_nodes
                        /\ safety_rules_epoch' = out.w.safety_rules_epoch
                        /\ running' = (out.result.kind # "Panic")
        /\ UNCHANGED <<obsVars, factoryVars, netVars, lexVars, inbox>>

\* sync_to completes (or fails) and start_new_epoch suspends at
\* storage.start.
SyncToDone ==
    \E c \in CallIds, env \in StepEnvs :
        /\ running
        /\ calls[c].pc = "sync_to"
        /\ storage_epoch' = SyncTo(storage_epoch, calls[c].ledger_info[1], env)
        /\ calls' = [calls EXCEPT ![c].pc = "storage.start"]
        /\ UNCHANGED <<epoch_info, eligible_nodes, safety_rules_epoch, running,
                       obsVars, factoryVars, netVars, lexVars, inbox>>

\* storage.start returns the RecoveryData; start_new_epoch installs the
\* EpochInfo and runs start_epoch, which does not suspend, and check_epoch
\* returns NewStart (or the task ends on a fatal error).
StorageStartDone ==
    \E c \in CallIds, env \in StepEnvs :
        /\ running
        /\ calls[c].pc = "storage.start"
        /\ LET initial_data == StorageStart(storage_epoch)
               s == start_epoch(Install(World, InstalledEpochInfo(initial_data)),
                                initial_data, env)
           IN  /\ epoch_info' = s.w.epoch_info
               /\ eligible_nodes' = s.w.eligible_nodes
               /\ safety_rules_epoch' = s.w.safety_rules_epoch
               /\ running' = ~s.panic
        /\ calls' = [calls EXCEPT ![c] = FreeCall]
        /\ UNCHANGED <<storage_epoch, obsVars, factoryVars, netVars, lexVars, inbox>>

\* The ledger advances by an epoch outside the task, at any moment.
LedgerCommit ==
    /\ running
    /\ storage_epoch < MaxEpoch
    /\ storage_epoch' = storage_epoch + 1
    /\ UNCHANGED <<epoch_info, eligible_nodes, safety_rules_epoch, running,
                   obsVars, factoryVars, stepVars, netVars, lexVars>>

StepNext ==
    \/ Arrive
    \/ BeginCheckEpoch
    \/ Classify
    \/ SyncToDone
    \/ StorageStartDone
    \/ LedgerCommit

StepSpec == StepInit /\ [][StepNext]_vars

\* ------------------------------------------------------------------------
\* Two nodes: each manager handles the messages of its peer in the order
\* they were sent, and what it hands to send_to goes into the peer's
\* channel.  Nothing enters the network after the initial state.
\* ------------------------------------------------------------------------
MaxInFlight == 2

\* The other node.
PeerOf(n) == CHOOSE p \in Nodes : p # n

\* The messages of a node at epoch e that may still be in flight at the start:
\* its votes of this and of earlier epochs. Requests and proofs enter the
\* channels as the answers the nodes give.
SentBy(n, e) ==
    {[type |-> "Vote", epoch |-> f, author |-> n, signed |-> TRUE] : f \in 0..e}

\* The sequences over a set of at most `k` elements.
SeqsUpTo(set, k) == UNION {[1..j -> set] : j \in 0..k}

NetInit ==
    /\ ManagerInit({0})
    /\ FactoryIdle
    /\ StepIdle
    /\ LexIdle
    /\ nodes \in [Nodes -> {NodeAt(e) : e \in Epochs}]
    /\ channel \in [Nodes -> SeqsUpTo(SentBy("P", MaxEpoch) \cup SentBy("Q", MaxEpoch),
                                      MaxInFlight)]
    /\ \A n \in Nodes : \A i \in 1..Len(channel[n]) :
           channel[n][i] \in SentBy(PeerOf(n), nodes[PeerOf(n)].storage_epoch)
    /\ owed = [n \in Nodes |-> 0]

\* The world check_epoch acts on at node n.
NodeWorld(n) ==
    [epoch_info         |-> nodes[n].epoch_info,
     storage_epoch      |-> nodes[n].storage_epoch,
     eligible_nodes     |-> nodes[n].eligible_nodes,
     safety_rules_epoch |-> nodes[n].safety_rules_epoch,
     sent               |-> <<>>,
     trace              |-> <<>>,
     security_log       |-> <<>>]

\* The epoch a Vote or SyncInfo of another epoch, received by n from its
\* peer, starts an exchange for: the message's epoch for n when n is behind,
\* n's epoch for the peer when the peer is behind.
Owes(n, m) ==
    LET local == nodes[n].epoch_info.epoch
    IN  IF m.type \in {"Vote", "Sync"} /\ m.epoch > local
        THEN [owed EXCEPT ![n] = Max(@, m.epoch)]
        ELSE IF m.type \in {"Vote", "Sync"} /\ m.epoch < local
        THEN [owed EXCEPT ![PeerOf(n)] = Max(@, local)]
        ELSE owed

\* Node n handles the next message of its peer: one check_epoch call, with
\* every collaborator succeeding; what it sends travels to the peer.
NetDeliver(n) ==
    /\ channel[n] # <<>>
    /\ \E out \in {check_epoch(NodeWorld(n), PeerOf(n), Head(channel[n]), DefaultEnv)} :
       LET m == Head(channel[n])
           delivered == SelectSeq(out.w.sent, LAMBDA x : x.ok)
       IN  /\ nodes' = [nodes EXCEPT ![n] =
                            [epoch_info         |-> out.w.epoch_info,
                             storage_epoch      |-> out.w.storage_epoch,
                             eligible_nodes     |-> out.w.eligible_nodes,
                             safety_rules_epoch |-> out.w.safety_rules_epoch]]
           /\ channel' = [channel EXCEPT
                             ![n] = Tail(@),
                             ![PeerOf(n)] =
                                 @ \o [i \in 1..Len(delivered) |-> delivered[i].msg]]
           /\ owed' = Owes(n, m)
    /\ UNCHANGED <<callVars, factoryVars, stepVars, lexVars>>

NetNext == \E n \in Nodes : NetDeliver(n)

\* Every message in flight is delivered and handled in the end.
FairNetSpec ==
    /\ NetInit
    /\ [][NetNext]_vars
    /\ \A n \in Nodes : WF_vars(NetDeliver(n))

\* ------------------------------------------------------------------------
\* The lexer: a lexer is made for an input text and advanced, token by
\* token, also after it returned an error or reached the end.
\* ------------------------------------------------------------------------
\* The longest input text.
MaxText == 4

\* The characters of the input texts: letters of names and of the keyword
\* `as`, operators with a longer form (=, ==, <, <=), whitespace, a digit,
\* and a character no pattern matches.
LexAlphabet == {"a", "s", "=", "<", " ", "0", "#"}

LexInit ==
    /\ ManagerInit({0})
    /\ FactoryIdle
    /\ StepIdle
    /\ NetIdle
    /\ input_text \in SeqsUpTo(LexAlphabet, MaxText)
    /\ text = lexer(input_text).text
    /\ consumed = lexer(input_text).consumed
    /\ previous_end = lexer(input_text).previous_end
    /\ token = lexer(input_text).token
    /\ lex_result = [kind |-> "None"]
    /\ before = [text |-> input_text, consumed |-> 0, token |-> lexer(input_text).token,
                 result |-> [kind |-> "None"]]
    /\ tokens = 0

\* One call of advance on the lexer.
Advance ==
    /\ lex_result.kind # "Panic"
    /\ \E out \in {advance([text |-> text, consumed |-> consumed,
                             previous_end |-> previous_end, token |-> token])} :
           /\ text' = out.self.text
           /\ consumed' = out.self.consumed
           /\ previous_end' = out.self.previous_end
           /\ token' = out.self.token
           /\ lex_result' = out.result
           /\ tokens' = IF out.result.kind = "Ok" /\ out.self.token.tok # "EOF"
                        THEN tokens + 1
                        ELSE tokens
    /\ before' = [text |-> text, consumed |-> consumed, token |-> token,
                  result |-> lex_result]
    /\ UNCHANGED <<input_text, callVars, factoryVars, stepVars, netVars>>

LexSpec == LexInit /\ [][Advance]_vars

\* ------------------------------------------------------------------------
\* Properties
\* ------------------------------------------------------------------------
\* The collaborator calls of the last call with the given name, in order.
TraceOf(name) == SelectSeq(trace, LAMBDA c : c.op = name)

\* The last call ran an epoch transition to its end.
Transitioned == result.kind \in {"NewStart", "Returned"}

C2_EpochInfoChangesOnlyByVerifiedProof ==
    (op = "check_epoch" /\ epoch_info # old_epoch_info) =>
        /\ msg.type = "EpochChange"
        /\ ProofEpoch(msg.proof) = [ok |-> TRUE, epoch |-> old_epoch_info.epoch]
        /\ ProofVerify(msg.proof, old_epoch_info).ok

\* check_epoch changed the EpochInfo (epoch and verifier).
C2_Witness ==
    /\ op = "check_epoch"
    /\ epoch_info.epoch # old_epoch_info.epoch
    /\ epoch_info.verifier # old_epoch_info.verifier

\* C3 (as claimed): whenever check_epoch returns NewStart the local epoch is
\* strictly greater than before the call, also when sync_to failed.
C3_NewStartStrictlyGreater ==
    (op = "check_epoch" /\ result.kind = "NewStart") =>
        epoch_info.epoch > old_epoch_info.epoch

\* C4 (as claimed): after start_new_epoch(target_ledger_info) returns, the
\* local epoch is at least target_ledger_info.epoch.
C4_EpochAtLeastTarget ==
    Transitioned => epoch_info.epoch >= TraceOf("sync_to")[1].ledger_info.epoch

\* C5: an epoch transition calls storage.start exactly once and installs
\* what that RecoveryData holds: the EpochInfo is (recovery.epoch,
\* recovery.validators), the network's eligible nodes are
\* recovery.validator_keys, the EventProcessor is built with
\* recovery.validators.
C5_InstalledFromOneRecoveryData ==
    (op = "check_epoch" /\ result.kind = "NewStart") =>
        /\ Len(TraceOf("storage.start")) = 1
        /\ LET recovery == TraceOf("storage.start")[1].returned
           IN  /\ epoch_info = [epoch |-> recovery.epoch,
                                verifier |-> recovery.validators]
               /\ eligible_nodes = recovery.validator_keys
               /\ TraceOf("update_eligible_nodes")[1].keys = recovery.validator_keys
               /\ result.event_processor.validators = recovery.validators
               /\ result.event_processor.epoch = recovery.epoch

\* The valid epoch change of the spec's scenario: sync_to succeeds and the
\* NewStart installs the next epoch with another committee.
C5_Witness ==
    /\ op = "check_epoch"
    /\ result.kind = "NewStart"
    /\ TraceOf("sync_to")[1].ok
    /\ epoch_info.epoch = old_epoch_info.epoch + 1
    /\ eligible_nodes = ValidatorKeys(Committee(epoch_info.epoch))
    /\ eligible_nodes # ValidatorKeys(old_epoch_info.verifier)

\* The last call was check_epoch on a message of the given type.
Received(type) == op = "check_epoch" /\ msg.type = type

\* The last call forwarded a message of the given type as Current.
Forwarded(type) ==
    /\ Received(type)
    /\ result.kind = "Current"

\* C6: a Proposal returned as Current is the received proposal, of the local
\* epoch, with signatures that verify under the verifier of the local epoch
\* at the time of the call, well-formed, and authored by the sending peer.
C6_ForwardedProposalIsValid ==
    Forwarded("Proposal") =>
        /\ result.msg = msg
        /\ result.msg.epoch = old_epoch_info.epoch
        /\ ValidateSignatures(result.msg, old_epoch_info.verifier)
        /\ result.msg.well_formed
        /\ result.msg.author = peer_id

\* A proposal was forwarded.
C6_Witness ==
    /\ Forwarded("Proposal")
    /\ result.msg.author = peer_id

\* A current-epoch proposal that is validly signed and well-formed but whose
\* author is not the sending peer (or is absent).
RelayedProposal ==
    /\ Received("Proposal")
    /\ msg.epoch = old_epoch_info.epoch
    /\ ValidateSignatures(msg, old_epoch_info.verifier)
    /\ msg.well_formed
    /\ msg.author # peer_id

\* C7: a relayed proposal makes check_epoch return an error: it is not
\* forwarded, no network message is sent, the EpochInfo is unchanged.
C7_RelayedProposalRejected ==
    RelayedProposal =>
        /\ result.kind = "Err"
        /\ sent = <<>>
        /\ epoch_info = old_epoch_info

\* Peer P relayed the valid proposal of validator R.
C7_Witness ==
    /\ RelayedProposal
    /\ msg.author \in old_epoch_info.verifier
    /\ result.kind = "Err"

\* C8: a Vote returned as Current is the received vote, of the local epoch,
\* and it verifies under the verifier of the local epoch at the time of the
\* call.
C8_ForwardedVoteIsValid ==
    Forwarded("Vote") =>
        /\ result.msg = msg
        /\ result.msg.epoch = old_epoch_info.epoch
        /\ VoteVerify(result.msg, old_epoch_info.verifier)

\* A vote was forwarded.
C8_Witness ==
    /\ Forwarded("Vote")
    /\ result.msg.signed

\* The one security-audit record of a rejected vote.
InvalidVoteRecord(error) ==
    [event |-> "InvalidConsensusVote", error |-> error, data |-> msg]

\* C9 (as claimed): every Vote that check_epoch does not forward as Current
\* produces exactly one security-audit record, a forwarded Vote none.
C9_EveryUnforwardedVoteLogged ==
    Received("Vote") =>
        IF result.kind = "Current"
        THEN security_log = <<>>
        ELSE /\ Len(security_log) = 1
             /\ security_log[1].event = "InvalidConsensusVote"
             /\ security_log[1].data = msg

\* C9 (amended): a Vote of the local epoch that fails verification (the call
\* returns the error) produces exactly one security-audit record,
\* InvalidConsensusVote with the error and the vote; a forwarded Vote, and a
\* Vote of another epoch (dropped as NotCurrent), produces none.
C9_InvalidVoteLoggedOnce ==
    Received("Vote") =>
        /\ result.kind \in {"Current", "Err", "NotCurrent"}
        /\ result.kind = "Err" <=>
              (msg.epoch = old_epoch_info.epoch
               /\ ~VoteVerify(msg, old_epoch_info.verifier))
        /\ result.kind = "NotCurrent" <=> msg.epoch # old_epoch_info.epoch
        /\ IF result.kind = "Err"
           THEN security_log = <<InvalidVoteRecord(result.error)>>
           ELSE security_log = <<>>

\* A vote of the local epoch was rejected and logged.
C9_Witness ==
    /\ Received("Vote")
    /\ result.kind = "Err"
    /\ Len(security_log) = 1

\* C10: a Proposal whose epoch differs from the local epoch (lower or
\* higher) is dropped in silence: check_epoch returns NotCurrent, without a
\* call of process_different_epoch or get_epoch_proof (no collaborator is
\* called at all) and without a network message.
C10_OtherEpochProposalDropped ==
    (Received("Proposal") /\ msg.epoch # old_epoch_info.epoch) =>
        /\ result.kind = "NotCurrent"
        /\ trace = <<>>
        /\ sent = <<>>
        /\ epoch_info = old_epoch_info

\* An otherwise valid proposal of a higher epoch was dropped.
C10_Witness ==
    /\ Received("Proposal")
    /\ msg.epoch > old_epoch_info.epoch
    /\ msg.well_formed
    /\ msg.author = peer_id
    /\ ValidateSignatures(msg, Committee(msg.epoch))
    /\ result.kind = "NotCurrent"

\* The last call was check_epoch on a Vote or a SyncInfo.
ReceivedVoteOrSync == Received("Vote") \/ Received("Sync")

\* Every message of the last call went to the peer the inbound message came
\* from.
SentOnlyToSender == \A i \in DOMAIN sent : sent[i].to = peer_id

\* C11: a Vote or SyncInfo of another epoch is not forwarded (NotCurrent)
\* and triggers exactly one cross-epoch help action toward the sender: one
\* call process_different_epoch(msg_epoch, sender), nothing toward another
\* peer.
C11_OtherEpochHelpedOnce ==
    (ReceivedVoteOrSync /\ msg.epoch # old_epoch_info.epoch) =>
        /\ result.kind = "NotCurrent"
        /\ TraceOf("process_different_epoch") =
              <<[op |-> "process_different_epoch", epoch |-> msg.epoch,
                 peer |-> peer_id]>>
        /\ Len(sent) <= 1
        /\ SentOnlyToSender

\* A vote of another epoch was answered with a message to its sender.
C11_Witness ==
    /\ Received("Vote")
    /\ msg.epoch # old_epoch_info.epoch
    /\ Len(sent) = 1
    /\ sent[1].to = peer_id

\* The EpochChange reply with the proof of the span [start, end).
ProofReply(start, end) ==
    [type |-> "EpochChange", proof |-> GetEpochProof(start, end)]

\* C12 (as claimed): a Vote or SyncInfo of a lower epoch e < L is not
\* forwarded and exactly one EpochChange is sent to the sender, with the
\* proof of the span start_epoch = e, end_epoch = L.
C12_LowerEpochAlwaysAnswered ==
    (ReceivedVoteOrSync /\ msg.epoch < old_epoch_info.epoch) =>
        /\ result.kind = "NotCurrent"
        /\ Len(sent) = 1
        /\ sent[1].to = peer_id
        /\ sent[1].msg = ProofReply(msg.epoch, old_epoch_info.epoch)

\* C12 (amended): a Vote or SyncInfo of a lower epoch e < L is not forwarded
\* and get_epoch_proof(e, L) is called once; if it returns a proof, exactly
\* one EpochChange with that proof is handed to send_to for the sender; if it
\* fails, nothing is sent.
C12_LowerEpochAnsweredWithProof ==
    (ReceivedVoteOrSync /\ msg.epoch < old_epoch_info.epoch) =>
        /\ result.kind = "NotCurrent"
        /\ Len(TraceOf("get_epoch_proof")) = 1
        /\ LET fetch == TraceOf("get_epoch_proof")[1]
           IN  /\ fetch.start_epoch = msg.epoch
               /\ fetch.end_epoch = old_epoch_info.epoch
               /\ IF fetch.ok
                  THEN /\ Len(sent) = 1
                       /\ sent[1].to = peer_id
                       /\ sent[1].msg = ProofReply(msg.epoch, old_epoch_info.epoch)
                  ELSE sent = <<>>

\* A stale vote was answered with the proof from its epoch to the local one.
C12_Witness ==
    /\ Received("Vote")
    /\ msg.epoch < old_epoch_info.epoch
    /\ Len(sent) = 1
    /\ sent[1].msg.type = "EpochChange"
    /\ Len(sent[1].msg.proof) = old_epoch_info.epoch - msg.epoch

\* The RequestEpoch message for the span from start to end.
EpochRequest(start, end) ==
    [type |-> "RequestEpoch", start_epoch |-> start, end_epoch |-> end]

\* C13 (as claimed): a SyncInfo or Vote of a higher epoch e > L is not
\* forwarded and exactly one RequestEpoch {start_epoch: L, end_epoch: e} is
\* sent to the sender; the local epoch stays L.
C13_HigherEpochAlwaysRequested ==
    (ReceivedVoteOrSync /\ msg.epoch > old_epoch_info.epoch) =>
        /\ result.kind = "NotCurrent"
        /\ Len(sent) = 1
        /\ sent[1].to = peer_id
        /\ sent[1].msg = EpochRequest(old_epoch_info.epoch, msg.epoch)
        /\ epoch_info = old_epoch_info

\* C13 (amended): a SyncInfo or Vote of a higher epoch e > L is not
\* forwarded and the local epoch stays L; if the request serializes, exactly
\* one RequestEpoch {start_epoch: L, end_epoch: e} is handed to send_to for
\* the sender, and if the serialization fails nothing is sent.
C13_HigherEpochRequested ==
    (ReceivedVoteOrSync /\ msg.epoch > old_epoch_info.epoch) =>
        /\ result.kind = "NotCurrent"
        /\ epoch_info = old_epoch_info
        /\ TraceOf("get_epoch_proof") = <<>>
        /\ Len(TraceOf("try_into")) = 1
        /\ IF TraceOf("try_into")[1].ok
           THEN /\ Len(sent) = 1
                /\ sent[1].to = peer_id
                /\ sent[1].msg = EpochRequest(old_epoch_info.epoch, msg.epoch)
           ELSE sent = <<>>

\* A SyncInfo two epochs ahead made the manager request the span.
C13_Witness ==
    /\ Received("Sync")
    /\ msg.epoch = old_epoch_info.epoch + 2
    /\ Len(sent) = 1
    /\ sent[1].msg.type = "RequestEpoch"

\* C14 (as claimed): replaying an EpochChange proof whose first check_epoch
\* returned NewStart gives no second NewStart: the second call returns
\* NotCurrent and calls neither sync_to nor storage.start.
C14_ReplayIsNotCurrent ==
    replay =>
        /\ result.kind = "NotCurrent"
        /\ TraceOf("sync_to") = <<>>
        /\ TraceOf("storage.start") = <<>>

\* The one call get_epoch_proof(start, end) of the last call fetched the
\* proof of the request and its outcome decided what was sent: on success
\* one EpochChange with that proof to the sender, on failure nothing.
ServedOnce(start, end) ==
    /\ Len(TraceOf("get_epoch_proof")) = 1
    /\ LET fetch == TraceOf("get_epoch_proof")[1]
       IN  /\ fetch.start_epoch = start
           /\ fetch.end_epoch = end
           /\ IF fetch.ok
              THEN /\ Len(sent) = 1
                   /\ sent[1].to = peer_id
                   /\ sent[1].msg = ProofReply(start, end)
              ELSE sent = <<>>

\* C15: a RequestEpoch is served if and only if its end_epoch is at most the
\* local epoch: then get_epoch_proof(start_epoch, end_epoch) is called and,
\* on success, one EpochChange with that proof is sent to the sender;
\* otherwise nothing is fetched and nothing sent.  In both cases check_epoch
\* returns NotCurrent and the EpochInfo is unchanged.
C15_RequestEpochServedUpToLocal ==
    Received("RequestEpoch") =>
        /\ result.kind = "NotCurrent"
        /\ epoch_info = old_epoch_info
        /\ IF msg.end_epoch <= old_epoch_info.epoch
           THEN ServedOnce(msg.start_epoch, msg.end_epoch)
           ELSE trace = <<>> /\ sent = <<>>

\* A request that ends at the local epoch was answered with a proof.
C15_Witness ==
    /\ Received("RequestEpoch")
    /\ msg.end_epoch = old_epoch_info.epoch
    /\ msg.start_epoch < msg.end_epoch
    /\ Len(sent) = 1
    /\ sent[1].msg = ProofReply(msg.start_epoch, msg.end_epoch)

\* C16: an EpochChange is verified, and can start a transition, only if the
\* epoch of its proof is the local epoch.  A proof without an epoch is
\* dropped with no effect; a proof of another epoch is never verified,
\* starts no transition, makes one call process_different_epoch(msg_epoch,
\* sender), and check_epoch returns NotCurrent.
C16_EpochChangeFilteredByEpoch ==
    Received("EpochChange") =>
        LET msg_epoch == ProofEpoch(msg.proof)
        IN  IF ~msg_epoch.ok
            THEN /\ result.kind = "NotCurrent"
                 /\ trace = <<>>
                 /\ sent = <<>>
                 /\ epoch_info = old_epoch_info
            ELSE IF msg_epoch.epoch # old_epoch_info.epoch
            THEN /\ result.kind = "NotCurrent"
                 /\ TraceOf("proof.verify") = <<>>
                 /\ TraceOf("sync_to") = <<>>
                 /\ TraceOf("storage.start") = <<>>
                 /\ TraceOf("process_different_epoch") =
                       <<[op |-> "process_different_epoch",
                          epoch |-> msg_epoch.epoch, peer |-> peer_id]>>
                 /\ epoch_info = old_epoch_info
            ELSE /\ Len(TraceOf("proof.verify")) = 1
                 /\ TraceOf("process_different_epoch") = <<>>

\* A proof that would verify from its own epoch, but of an epoch ahead of
\* the local one, was dropped with a request for the missing span.
C16_Witness ==
    /\ Received("EpochChange")
    /\ Len(msg.proof) > 0
    /\ msg.proof[1].epoch > old_epoch_info.epoch
    /\ msg.proof \in HonestProofs
    /\ result.kind = "NotCurrent"
    /\ Len(sent) = 1
    /\ sent[1].msg.type = "RequestEpoch"

\* The last call made sync_to and sync_to returned an error.
SyncFailed ==
    /\ Len(TraceOf("sync_to")) = 1
    /\ ~TraceOf("sync_to")[1].ok

\* The last call made the named call of start_epoch and it returned an error.
StepFailed(name) ==
    /\ Len(TraceOf(name)) = 1
    /\ ~TraceOf(name)[1].ok

\* C17: a failure of sync_to in start_new_epoch is not fatal: storage.start
\* is still called once, and unless a later step of start_epoch fails the
\* EpochInfo is installed from its RecoveryData and the call returns its
\* EventProcessor (check_epoch returns NewStart); when storage was already
\* at the epoch after the target ledger info, that is the local epoch.
C17_SyncFailureNotFatal ==
    SyncFailed =>
        /\ Len(TraceOf("storage.start")) = 1
        /\ StepFailed("update_eligible_nodes")
              \/ StepFailed("safety_rules.start_new_epoch")
              \/ LET sync == TraceOf("sync_to")[1]
                     initial_data == TraceOf("storage.start")[1].returned
                 IN  /\ running
                     /\ result.kind = IF op = "check_epoch" THEN "NewStart"
                                                            ELSE "Returned"
                     /\ epoch_info = InstalledEpochInfo(initial_data)
                     /\ result.event_processor.epoch = epoch_info.epoch
                     /\ sync.committed = sync.ledger_info.epoch + 1
                           => epoch_info.epoch = sync.ledger_info.epoch + 1

\* sync_to failed on an EpochChange while storage was already at the new
\* epoch, and check_epoch returned NewStart with the local epoch advanced.
C17_Witness ==
    /\ Received("EpochChange")
    /\ SyncFailed
    /\ TraceOf("sync_to")[1].committed = TraceOf("sync_to")[1].ledger_info.epoch + 1
    /\ result.kind = "NewStart"
    /\ epoch_info.epoch = old_epoch_info.epoch + 1

\* C18: a failure of update_eligible_nodes is fatal to the transition: no
\* EventProcessor is produced (no NewStart), the BlockStore is not built
\* and the safety rules are not moved to the new epoch.
C18_UpdateEligibleNodesFailureFatal ==
    StepFailed("update_eligible_nodes") =>
        /\ result.kind = "Panic"
        /\ ~running
        /\ TraceOf("BlockStore::new") = <<>>
        /\ TraceOf("safety_rules.start_new_epoch") = <<>>

\* update_eligible_nodes failed in the transition a verified EpochChange
\* started.
C18_Witness ==
    /\ Received("EpochChange")
    /\ StepFailed("update_eligible_nodes")
    /\ Len(TraceOf("storage.start")) = 1
    /\ result.kind = "Panic"

\* C19: a failure of the safety rules' start_new_epoch is fatal to the
\* transition: no EventProcessor is produced and check_epoch does not
\* return NewStart.
C19_SafetyRulesFailureFatal ==
    StepFailed("safety_rules.start_new_epoch") =>
        /\ result.kind = "Panic"
        /\ ~running

\* The safety rules failed after the network was updated and the
\* BlockStore built, in the transition a verified EpochChange started.
C19_Witness ==
    /\ Received("EpochChange")
    /\ StepFailed("safety_rules.start_new_epoch")
    /\ Len(TraceOf("BlockStore::new")) = 1
    /\ ~StepFailed("update_eligible_nodes")
    /\ result.kind = "Panic"

\* get_epoch_proof, the serialization of the request or send_to failed in
\* the last call.
HelpFailed ==
    \/ StepFailed("get_epoch_proof")
    \/ StepFailed("try_into")
    \/ \E i \in 1..Len(sent) : ~sent[i].ok

\* C20: cross-epoch help and epoch retrieval are best effort: when
\* get_epoch_proof, serialization or send_to fails while check_epoch
\* handles a Vote, Sync, EpochChange or RequestEpoch, it still returns
\* NotCurrent, the EpochInfo is unchanged and the manager keeps running.
C20_HelpFailureNotFatal ==
    (op = "check_epoch" /\ HelpFailed) =>
        /\ msg.type \in {"Vote", "Sync", "EpochChange", "RequestEpoch"}
        /\ result.kind = "NotCurrent"
        /\ epoch_info = old_epoch_info
        /\ running

\* send_to failed for the reply to a RequestEpoch.
C20_Witness ==
    /\ Received("RequestEpoch")
    /\ Len(sent) = 1
    /\ ~sent[1].ok
    /\ sent[1].msg.type = "EpochChange"
    /\ result.kind = "NotCurrent"

\* The names of the steps of the last call, in order.
StepNames == [i \in 1..Len(trace) |-> trace[i].op]

\* The steps of an epoch transition, in the order of start_new_epoch and
\* start_epoch.
TransitionSteps ==
    <<"sync_to", "storage.start", "epoch_info.install", "update_eligible_nodes",
      "BlockStore::new", "safety_rules.start_new_epoch">>

\* C22: NewStart carries a fully constructed EventProcessor: when check_epoch
\* returns NewStart (or start_new_epoch returns) the steps of the call were,
\* in this order, sync_to, storage.start, the install of the EpochInfo,
\* update_eligible_nodes, the BlockStore, the safety rules' start_new_epoch;
\* the last two calls that can fail succeeded, and the EventProcessor is that
\* of the installed epoch with all its components.
C22_NewStartAfterAllSteps ==
    Transitioned =>
        /\ StepNames = IF op = "check_epoch"
                       THEN <<"proof.verify">> \o TransitionSteps
                       ELSE TransitionSteps
        /\ TraceOf("update_eligible_nodes")[1].ok
        /\ TraceOf("safety_rules.start_new_epoch")[1].ok
        /\ TraceOf("epoch_info.install")[1].epoch_info = epoch_info
        /\ DOMAIN result.event_processor =
              {"epoch", "validators", "block_store", "pacemaker",
               "proposer_election"}
        /\ result.event_processor.epoch = epoch_info.epoch
        /\ result.event_processor.validators = epoch_info.verifier
        /\ result.event_processor.block_store.root =
              TraceOf("BlockStore::new")[1].root

\* A verified EpochChange moved the manager to the next epoch and NewStart
\* was returned.
C22_Witness ==
    /\ Received("EpochChange")
    /\ result.kind = "NewStart"
    /\ epoch_info.epoch = old_epoch_info.epoch + 1
    /\ result.event_processor.epoch = epoch_info.epoch

\* C23: a RequestBlock is always forwarded: check_epoch returns
\* Current(RequestBlock) with the request as received, whatever the local
\* epoch, sends nothing, calls no collaborator and leaves the EpochInfo as
\* it was.
C23_RequestBlockAlwaysForwarded ==
    Received("RequestBlock") =>
        /\ result = [kind |-> "Current", msg |-> msg]
        /\ sent = <<>>
        /\ trace = <<>>
        /\ epoch_info = old_epoch_info

\* A RequestBlock was forwarded by a manager that has left the first epoch.
C23_Witness ==
    /\ Received("RequestBlock")
    /\ old_epoch_info.epoch > 0
    /\ result.kind = "Current"
    /\ result.msg.type = "RequestBlock"

\* C24: a SyncInfo is forwarded as Current if and only if its epoch is the
\* local epoch, and then without any verification: no error, no collaborator
\* call, nothing sent, the SyncInfo as received.
C24_SyncForwardedIffSameEpoch ==
    Received("Sync") =>
        /\ (result.kind = "Current") <=> (msg.epoch = old_epoch_info.epoch)
        /\ msg.epoch = old_epoch_info.epoch =>
              /\ result = [kind |-> "Current", msg |-> msg]
              /\ trace = <<>>
              /\ sent = <<>>
        /\ result.kind # "Err"

\* A SyncInfo of the local epoch whose certificates lack the voting power of
\* the validator set was forwarded.
C24_Witness ==
    /\ Received("Sync")
    /\ msg.epoch = old_epoch_info.epoch
    /\ ~SyncInfoVerify(msg, old_epoch_info.verifier)
    /\ result.kind = "Current"

\* C25: an error of the state computer is not retried: one inbound message
\* causes at most one call of get_epoch_proof, and when that call fails
\* nothing is sent to the peer.
C25_ProofFetchedAtMostOnce ==
    op = "check_epoch" =>
        /\ Len(TraceOf("get_epoch_proof")) <= 1
        /\ StepFailed("get_epoch_proof") => sent = <<>>

\* get_epoch_proof failed while a vote of a lower epoch was being answered.
C25_Witness ==
    /\ Received("Vote")
    /\ msg.epoch < old_epoch_info.epoch
    /\ StepFailed("get_epoch_proof")
    /\ sent = <<>>

\* The last call was process_different_epoch(other_epoch, peer) with
\* other_epoch equal to the local epoch.
SameEpochCall ==
    /\ op = "process_different_epoch"
    /\ TraceOf("process_different_epoch")[1].epoch = old_epoch_info.epoch

\* C26: process_different_epoch called with the local epoch does nothing: no
\* get_epoch_proof, no serialization, nothing sent, EpochInfo unchanged.
C26_SameEpochDoesNothing ==
    SameEpochCall =>
        /\ Len(trace) = 1
        /\ TraceOf("get_epoch_proof") = <<>>
        /\ sent = <<>>
        /\ epoch_info = old_epoch_info

\* process_different_epoch was called with the local epoch, above epoch 0.
C26_Witness ==
    /\ SameEpochCall
    /\ old_epoch_info.epoch > 0
    /\ sent = <<>>

\* The leader of a proposer election in the given round.
Leader(election, round) == GetProposer(election, round)

\* C27: with FixedProposer the leader depends on the validator set alone:
\* whatever the order the addresses were given in, every election built is
\* a rotating proposer over one address, the smallest of the validator set,
\* which leads every round, and two constructions give the same election.
C27_FixedProposerIsSmallestAddress ==
    config.proposer_type = "FixedProposer" =>
        \A i \in 1..Len(built) :
            LET election == built[i].election
            IN  /\ election.type = "RotatingProposer"
                /\ Len(election.proposers) = 1
                /\ election.proposers[1] \in addresses
                /\ \A a \in addresses : ~AddressLess(a, election.proposers[1])
                /\ \A round \in 0..MaxRound :
                       Leader(election, round) = election.proposers[1]
                /\ \A j \in 1..Len(built) : built[j].election = election

\* Two elections were built from the same three validators given in two
\* orders, neither starting with the smallest address.
C27_Witness ==
    /\ config.proposer_type = "FixedProposer"
    /\ Len(built) = 2
    /\ Cardinality(addresses) = 3
    /\ built[1].input # built[2].input
    /\ built[1].input[1] # built[1].election.proposers[1]
    /\ built[2].input[1] # built[2].election.proposers[1]

\* B * 1.5^i * 64 for B = 1 and i = 0..6.
ScaledTimeouts == <<64, 96, 144, 216, 324, 486, 729>>

\* C28: the pacemaker's interval is exponential with base
\* B = pacemaker_initial_timeout_ms, multiplier 1.5 and maximal exponent 6:
\* after i consecutive timeouts the round lasts B * 1.5^i for i <= 6 and
\* B * 1.5^6 for every larger i.
C28_ExponentialTimeouts ==
    pacemaker # NoPacemaker =>
        LET i == IF timeouts <= 6 THEN timeouts ELSE 6
        IN  64 * round_duration.num =
               config.pacemaker_initial_timeout_ms * ScaledTimeouts[i + 1]
                   * round_duration.den

\* The round after eight consecutive timeouts lasts B * 1.5^6 = 11390.625 ms
\* for B = 1000.
C28_Witness ==
    /\ pacemaker # NoPacemaker
    /\ config.pacemaker_initial_timeout_ms = 1000
    /\ timeouts = 8
    /\ 64 * round_duration.num = 729000 * round_duration.den

\* The call is inside start_new_epoch.
InTransition(c) == calls[c].pc \in TransitionPcs

\* C21: epoch transitions are serialized with classification: while a call
\* is inside start_new_epoch, suspended at sync_to or at storage.start, no
\* other call of check_epoch is alive, so no message is classified before
\* the transition has returned and no two transitions overlap.
C21_TransitionsSerialized ==
    \A a \in CallIds, b \in CallIds :
        (a # b /\ InTransition(a)) => calls[b].pc = "free"

\* A transition is suspended at storage.start, after sync_to has moved the
\* ledger past the local epoch, while two messages wait to be classified.
C21_Witness ==
    \E c \in CallIds :
        /\ calls[c].pc = "storage.start"
        /\ storage_epoch > epoch_info.epoch
        /\ Len(inbox) = 2

\* The last call was check_epoch on an EpochChange whose proof passed the
\* classifier and proof.verify under the EpochInfo of the time of the call.
VerifiedSameEpochProof ==
    /\ Received("EpochChange")
    /\ ProofEpoch(msg.proof) = [ok |-> TRUE, epoch |-> old_epoch_info.epoch]
    /\ Len(TraceOf("proof.verify")) = 1
    /\ ProofVerify(msg.proof, old_epoch_info).ok

\* C31: the stale-proof branch of the EpochChange arm is not reachable
\* through check_epoch: a proof that passed the classifier and verified
\* under the current EpochInfo has local epoch <= target epoch, the
\* transition is started, and check_epoch never returns NotCurrent for it:
\* what it returns is NewStart (it returns nothing when start_epoch panics).
C31_StaleProofBranchUnreachable ==
    VerifiedSameEpochProof =>
        /\ old_epoch_info.epoch <= ProofVerify(msg.proof, old_epoch_info).ledger_info.epoch
        /\ Len(TraceOf("sync_to")) = 1
        /\ result.kind # "NotCurrent"
        /\ result.kind \in {"NewStart", "Panic"}
        /\ result.kind = "Panic" => (StepFailed("update_eligible_nodes")
                                        \/ StepFailed("safety_rules.start_new_epoch"))

\* A verified proof spanning two epochs, taken from the local epoch, ended in
\* NewStart; the proofs offered include ones that end below their first epoch.
C31_Witness ==
    /\ VerifiedSameEpochProof
    /\ Len(msg.proof) = 2
    /\ result.kind = "NewStart"
    /\ \E p \in Proofs : Len(p) = 2 /\ p[2].epoch < p[1].epoch

\* The calls get_epoch_proof(start, end) of the last call.
Fetches == TraceOf("get_epoch_proof")

\* C32 (as claimed): every call get_epoch_proof(start, end) the manager
\* makes while handling inbound messages has start <= end <= the local
\* epoch at the time of the call.
C32_ProofSpanOrdered ==
    \A i \in DOMAIN Fetches :
        /\ Fetches[i].start_epoch <= Fetches[i].end_epoch
        /\ Fetches[i].end_epoch <= old_epoch_info.epoch

\* C32 (amended): every call get_epoch_proof(start, end) has end <= the
\* local epoch at the time of the call.  When the manager builds the span
\* itself (help for a peer of a lower epoch) start < end = local; for a
\* RequestEpoch the span is the one the peer sent, whose start_epoch is not
\* compared with anything and may lie above end_epoch.
C32_ProofSpanEndsWithinLocal ==
    \A i \in DOMAIN Fetches :
        /\ Fetches[i].end_epoch <= old_epoch_info.epoch
        /\ IF Received("RequestEpoch")
           THEN /\ Fetches[i].start_epoch = msg.start_epoch
                /\ Fetches[i].end_epoch = msg.end_epoch
           ELSE /\ Fetches[i].start_epoch < Fetches[i].end_epoch
                /\ Fetches[i].end_epoch = old_epoch_info.epoch

\* A RequestEpoch whose start_epoch lies above its end_epoch was passed on
\* to get_epoch_proof.
C32_Witness ==
    /\ Received("RequestEpoch")
    /\ msg.start_epoch > msg.end_epoch
    /\ Len(Fetches) = 1
    /\ Fetches[1].start_epoch > Fetches[1].end_epoch

\* C33: handling one inbound message of peer P through check_epoch hands at
\* most one message to send_to, and that one is addressed to P; a message
\* forwarded as Current or rejected with an error sends none.
C33_AtMostOneReplyToSender ==
    op = "check_epoch" =>
        /\ Len(sent) <= 1
        /\ SentOnlyToSender
        /\ result.kind \in {"Current", "Err"} => sent = <<>>

\* An EpochChange of a lower epoch was answered with one message to its
\* sender Q, and check_epoch returned NotCurrent.
C33_Witness ==
    /\ Received("EpochChange")
    /\ peer_id = "Q"
    /\ result.kind = "NotCurrent"
    /\ Len(sent) = 1
    /\ sent[1].to = "Q"
    /\ sent[1].msg.type = "EpochChange"

\* The message of the last check_epoch call is of the epoch the manager was
\* in: the epoch a Proposal, Vote or SyncInfo carries, the epoch of the
\* first ledger info of a proof.
OfCurrentEpoch ==
    CASE msg.type \in {"Proposal", "Vote", "Sync"} ->
             msg.epoch = old_epoch_info.epoch
      [] msg.type = "EpochChange" ->
             ProofEpoch(msg.proof) = [ok |-> TRUE, epoch |-> old_epoch_info.epoch]
      [] OTHER -> FALSE

\* The classifier dropped the message of the last check_epoch call for its
\* epoch.
EpochMismatch ==
    CASE msg.type \in {"Proposal", "Vote", "Sync", "EpochChange"} -> ~OfCurrentEpoch
      [] msg.type = "RequestEpoch" -> msg.end_epoch > old_epoch_info.epoch
      [] OTHER -> FALSE

\* The message of the last check_epoch call fails the verification of its
\* arm under the EpochInfo of the time of the call.
FailsVerification ==
    CASE msg.type = "Proposal" ->
             \/ ~ValidateSignatures(msg, old_epoch_info.verifier)
             \/ ~msg.well_formed
             \/ msg.author # peer_id
      [] msg.type = "Vote" -> ~VoteVerify(msg, old_epoch_info.verifier)
      [] msg.type = "EpochChange" -> ~ProofVerify(msg.proof, old_epoch_info).ok
      [] OTHER -> FALSE

\* The verifications of the last call.
Verifications ==
    TraceOf("validate_signatures") \o TraceOf("vote_msg.verify")
        \o TraceOf("proof.verify")

\* C34: check_epoch returns an error only for a message of the current
\* epoch that fails verification (Proposal: signatures, well-formedness,
\* authorship; Vote; EpochChange proof); a message the classifier drops for
\* its epoch returns NotCurrent and is never verified; an error return
\* leaves the EpochInfo as it was and calls none of sync_to, storage.start,
\* update_eligible_nodes, send_to.
C34_ErrorOnlyForFailedVerification ==
    op = "check_epoch" =>
        /\ result.kind = "Err" =>
              /\ msg.type \in {"Proposal", "Vote", "EpochChange"}
              /\ OfCurrentEpoch
              /\ FailsVerification
              /\ Len(Verifications) = 1
              /\ epoch_info = old_epoch_info
              /\ sent = <<>>
              /\ TraceOf("sync_to") = <<>>
              /\ TraceOf("storage.start") = <<>>
              /\ TraceOf("update_eligible_nodes") = <<>>
        /\ EpochMismatch =>
              /\ result.kind = "NotCurrent"
              /\ Verifications = <<>>

\* A proof of the local epoch with a forged ledger info was rejected with an
\* error.
C34_Witness ==
    /\ Received("EpochChange")
    /\ OfCurrentEpoch
    /\ msg.proof \notin HonestProofs
    /\ result.kind = "Err"
    /\ epoch_info = old_epoch_info
    /\ trace = <<[op |-> "proof.verify"]>>

\* The calls of process_different_epoch the last call made.
DifferentEpochCalls == TraceOf("process_different_epoch")

\* C35: through check_epoch, process_different_epoch is only ever called
\* with an epoch other than the local epoch: no inbound message reaches its
\* same-epoch branch.
C35_DifferentEpochIsDifferent ==
    op = "check_epoch" =>
        \A i \in DOMAIN DifferentEpochCalls :
            DifferentEpochCalls[i].epoch # old_epoch_info.epoch

\* A SyncInfo of a higher epoch made check_epoch call
\* process_different_epoch with that epoch.
C35_Witness ==
    /\ Received("Sync")
    /\ msg.epoch > old_epoch_info.epoch
    /\ Len(DifferentEpochCalls) = 1
    /\ DifferentEpochCalls[1].epoch = msg.epoch
    /\ old_epoch_info.epoch > 0

\* The last advance returned a token other than EOF.
TokenReturned == lex_result.kind = "Ok" /\ token.tok # "EOF"

\* The last advance returned the token EOF.
EofReturned == lex_result.kind = "Ok" /\ token.tok = "EOF"

\* C36: the position of the lexer, after any number of advances: consumed
\* plus the length of the remaining text is the length of the input (the
\* remaining text is the input from `consumed` on), consumed never
\* decreases, a successful advance leaves start <= end = consumed, and one
\* that returns a token other than EOF consumes at least one character: at
\* most as many such tokens are returned as the input has characters, so
\* EOF or InvalidToken is reached after finitely many calls.
C36_PositionAndProgress ==
    /\ consumed + Len(text) = Len(input_text)
    /\ text = Drop(input_text, consumed)
    /\ consumed >= before.consumed
    /\ lex_result.kind = "Ok" => (token.start <= token.end /\ token.end = consumed)
    /\ TokenReturned =>
          /\ consumed >= before.consumed + 1
          /\ token.end >= token.start + 1
          /\ Len(text) < Len(before.text)
    /\ tokens <= consumed
    /\ tokens <= Len(input_text)

\* Two tokens were cut off an input that begins and ends with whitespace.
C36_Witness ==
    /\ tokens = 2
    /\ TokenReturned
    /\ token.start = 2
    /\ consumed = 3
    /\ Head(input_text) = " "
    /\ text = <<" ">>

\* What the last advance matched the patterns against: the text it found,
\* without the leading whitespace.
Scanned == TrimStart(before.text)

\* The indices of the patterns that match the scanned text.
Matching == {i \in 0..(Len(regex_vec) - 1) : Find(regex_vec[i + 1], Scanned).some}

\* The length of the match of pattern i on the scanned text.
MatchLen(i) == Find(regex_vec[i + 1], Scanned).end

\* The patterns whose match on the scanned text no other match exceeds.
LongestMatching == {i \in Matching : \A j \in Matching : MatchLen(j) <= MatchLen(i)}

\* C37: advance selects the longest match among all patterns at the
\* current position and, among the patterns that match with that length, the
\* one of the highest index (a keyword wins over NameValue for the same
\* text); the index is below the number of patterns, so Tok::from_usize does
\* not panic.
C37_LongestMatchHighestIndex ==
    /\ lex_result.kind # "Panic"
    /\ Len(Toks) = Len(regex_vec)
    /\ TokenReturned =>
          /\ LongestMatching # {}
          /\ \E i \in LongestMatching :
                /\ \A j \in LongestMatching : j <= i
                /\ i < Len(regex_vec)
                /\ token.tok = Toks[i + 1]
                /\ token.content = Take(Scanned, MatchLen(i))
                /\ token.end - token.start = MatchLen(i)
          /\ token.content = <<"a", "s">> => token.tok = "As"
    /\ lex_result.kind = "InvalidToken" => Matching = {}

\* The text `as` matched NameValue and the keyword with the same length, and
\* the keyword was returned; what followed was not part of a name.
C37_Witness ==
    /\ TokenReturned
    /\ token.tok = "As"
    /\ {2, 33} \subseteq LongestMatching
    /\ text # <<>>

\* C38: the error and the end are stable.  When advance returns
\* InvalidToken the remaining text, the offset and the current token are as
\* they were (previous_end alone is set, to the end of that token), and the
\* next advance returns InvalidToken at the same location; once advance has
\* returned EOF every later advance returns EOF with start = end = consumed
\* = the length of the input.
C38_ErrorAndEndStable ==
    /\ lex_result.kind = "InvalidToken" =>
          /\ text = before.text
          /\ consumed = before.consumed
          /\ token = before.token
          /\ previous_end = before.token.end
          /\ lex_result.location = consumed + Len(text) - Len(TrimStart(text))
    /\ before.result.kind = "InvalidToken" => lex_result = before.result
    /\ EofReturned =>
          /\ token = TokenOf(Len(input_text), "EOF", <<>>, Len(input_text))
          /\ consumed = Len(input_text)
          /\ text = <<>>
    /\ (before.result.kind = "Ok" /\ before.token.tok = "EOF") =>
          /\ EofReturned
          /\ token = before.token
          /\ previous_end = Len(input_text)

\* advance returned InvalidToken twice in a row, at a location behind a token
\* and whitespace.
C38_Witness ==
    /\ lex_result.kind = "InvalidToken"
    /\ before.result.kind = "InvalidToken"
    /\ tokens = 1
    /\ lex_result.location > consumed
    /\ token.tok # "EOF"

\* No message is in flight.
Quiescent == \A n \in Nodes : channel[n] = <<>>

\* C29 (as claimed): cross-epoch help quiesces: with finitely many messages
\* in flight at the start and nothing entering the network afterwards,
\* only finitely many messages are ever generated, so in the end no message
\* is in flight any more.
C29_HelpQuiesces == <>[]Quiescent

\* C30 (as claimed): catch-up completes: once a Vote or SyncInfo of another
\* epoch has started an exchange that is to bring a node to epoch H, and
\* every message is delivered and every collaborator succeeds, the node
\* reaches an epoch >= H. Epochs and the epochs owed only grow, so this is:
\* again and again every node is at an epoch >= the one owed to it.
C30_CatchUpCompletes ==
    \A n \in Nodes : []<>(nodes[n].epoch_info.epoch >= owed[n])

====
